---- MODULE Spec2Model ----
(***************************************************************************)
(* Model of the RAG web front end (rag_web): the request handlers of       *)
(* routes/api.py together with the services they call (services/*.py),     *)
(* the static configuration of config.py and the external services         *)
(* (knowledge base, object store, ingestion-job API, LLM backends) as the   *)
(* environment.  Strings the code computes on (questions, filenames,       *)
(* chunks, answers) are sequences of one-character strings.                *)
(***************************************************************************)
EXTENDS Integers, Sequences, FiniteSets, TLC

\* The fields of the records of this model.
RecordFields ==
    [Bucket |-> 0, Key |-> 0, Prefix |-> 0, aborted |-> 0, answer |-> 0,
     arg |-> 0, atStart |-> 0, body |-> 0, bucket |-> 0, calls |-> 0,
     cl |-> 0, code |-> 0, collection |-> 0, content |-> 0, context |-> 0,
     data |-> 0, dataSourceId |-> 0, document_count |-> 0, done |-> 0,
     ds_id |-> 0, err |-> 0, error |-> 0, exc |-> 0, exception |-> 0,
     failure_reasons |-> 0, files |-> 0, filter |-> 0, fn |-> 0, h |-> 0,
     handled |-> 0, has_files |-> 0, hits |-> 0, ingestionJobId |-> 0,
     ingestion_job_id |-> 0, jobs |-> 0, k |-> 0, kb_id |-> 0, kind |-> 0,
     knowledgeBaseId |-> 0, knowledge_base |-> 0,
     knowledge_base_configured |-> 0, llm |-> 0, llm_top_k |-> 0,
     local |-> 0, maxResults |-> 0, max_tokens |-> 0, message |-> 0,
     metadata_filter |-> 0, n |-> 0, name |-> 0, none |-> 0,
     numberOfResults |-> 0, ok |-> 0, op |-> 0, overrideSearchType |-> 0,
     pc |-> 0, polled |-> 0, query |-> 0, question |-> 0, req |-> 0,
     reranking |-> 0, rerankingConfiguration |-> 0, resp |-> 0, ret |-> 0,
     s |-> 0, s3_bucket_configured |-> 0, search_type |-> 0, startedAt |-> 0,
     started_at |-> 0, status |-> 0, steps |-> 0, t |-> 0, temperature |-> 0,
     text |-> 0, top_k |-> 0, top_p |-> 0, updatedAt |-> 0, updated_at |-> 0,
     uploaded |-> 0, v |-> 0, value |-> 0, warning |-> 0]

VARIABLES
    KNOWLEDGE_BASE_ID,   \* config.py: None or the configured id
    DATA_SOURCE_ID,      \* config.py: None or the configured id
    S3_BUCKET_NAME,      \* config.py: None or the configured bucket
    GEMINI_API_KEY,      \* config.py: None or the configured key
    USE_BEDROCK_LLM,     \* config.py: static backend-selection flag
    singletons,          \* aws_clients.py: the five module-level client handles
    constructed,         \* per client, how many times its constructor has run
    bucket,              \* external object store: the set of keys written
    jobs,                \* external ingestion-job API: the jobs it knows, oldest first
    last,                \* the request handled last: its input, the calls it made, its response
    threads,             \* threads inside a client getter: where each one is in its body
    envFile,             \* setup_aws_infrastructure.py: the lines of the .env file
    setup,               \* the setup script: where it is in main, its ids, the steps it took
    cloud                \* the resources the setup script waits for: their status

vars == <<KNOWLEDGE_BASE_ID, DATA_SOURCE_ID, S3_BUCKET_NAME, GEMINI_API_KEY,
          USE_BEDROCK_LLM, singletons, constructed, bucket, jobs, last, threads,
          envFile, setup, cloud>>

config == <<KNOWLEDGE_BASE_ID, DATA_SOURCE_ID, S3_BUCKET_NAME, GEMINI_API_KEY,
            USE_BEDROCK_LLM>>

\* what belongs to the setup script and the resources it provisions
provisioning == <<envFile, setup, cloud>>

None == "None"

\* ---------------------------------------------------------------- bounds
MaxHits == 2      \* search hits the knowledge base returns for one query
MaxFiles == 2     \* files submitted in one upload request
MaxJobs == 2      \* ingestion jobs the external service holds
MaxCalls == 2     \* getter calls one thread makes
MaxLines == 3     \* lines of the .env file the setup script starts from

\* ---------------------------------------------------------------- strings
Whitespace == {" ", "\n", "\t"}

RECURSIVE LStrip(_)
LStrip(s) ==
    IF s = <<>> THEN <<>>
    ELSE IF Head(s) \in Whitespace THEN LStrip(Tail(s)) ELSE s

RECURSIVE RStrip(_)
RStrip(s) ==
    IF s = <<>> THEN <<>>
    ELSE IF s[Len(s)] \in Whitespace THEN RStrip(SubSeq(s, 1, Len(s) - 1)) ELSE s

\* str.strip()
Strip(s) == RStrip(LStrip(s))

\* " ".join(chunks)
RECURSIVE Join_WithSpaces(_)
Join_WithSpaces(chunks) ==
    IF chunks = <<>> THEN <<>>
    ELSE IF Len(chunks) = 1 THEN chunks[1]
    ELSE chunks[1] \o <<" ">> \o Join_WithSpaces(Tail(chunks))

\* "\n".join(chunks)
RECURSIVE Join(_)
Join(chunks) ==
    IF chunks = <<>> THEN <<>>
    ELSE IF Len(chunks) = 1 THEN chunks[1]
    ELSE chunks[1] \o <<"\n">> \o Join(Tail(chunks))

UpperCase == <<"A", "B", "C", "D", "E", "F", "G", "H", "I", "J", "K", "L", "M",
               "N", "O", "P", "Q", "R", "S", "T", "U", "V", "W", "X", "Y", "Z">>
LowerCase == <<"a", "b", "c", "d", "e", "f", "g", "h", "i", "j", "k", "l", "m",
               "n", "o", "p", "q", "r", "s", "t", "u", "v", "w", "x", "y", "z">>

LowerChar(c) ==
    IF \E i \in 1..26 : UpperCase[i] = c
    THEN LowerCase[CHOOSE i \in 1..26 : UpperCase[i] = c]
    ELSE c

\* str.lower()
Lower(s) == [i \in 1..Len(s) |-> LowerChar(s[i])]

\* str.rfind(c), 1-based, 0 when c does not occur
RFind(s, c) ==
    IF \E i \in 1..Len(s) : s[i] = c
    THEN CHOOSE i \in 1..Len(s) : s[i] = c /\ \A j \in (i + 1)..Len(s) : s[j] # c
    ELSE 0

\* os.path.splitext(p)[1]: the text from the last dot of the last path
\* component on, unless that component has only leading dots before it
SplitExt(p) ==
    LET sepIndex == RFind(p, "/")
        dotIndex == RFind(p, ".")
    IN  IF dotIndex > sepIndex
           /\ \E i \in (sepIndex + 1)..(dotIndex - 1) : p[i] # "."
        THEN SubSeq(p, dotIndex, Len(p))
        ELSE <<>>

\* ---------------------------------------------------------------- JSON values
\* A value of the request body: absent key, null, a number or a string.
\* Floats are carried in hundredths (1.0 is 100, 0.95 is 95).
JAbsent == [n |-> 0, s |-> <<>>, t |-> "absent"]
JNull == [n |-> 0, s |-> <<>>, t |-> "null"]
JInt(n) == [n |-> n, s |-> <<>>, t |-> "int"]
JStr(s) == [n |-> 0, s |-> s, t |-> "str"]

Digits == <<"0", "1", "2", "3", "4", "5", "6", "7", "8", "9">>
IsDigit(c) == \E i \in 1..10 : Digits[i] = c
DigitVal(c) == (CHOOSE i \in 1..10 : Digits[i] = c) - 1

RECURSIVE DecimalVal(_)
DecimalVal(s) ==
    IF s = <<>> THEN 0 ELSE 10 * DecimalVal(SubSeq(s, 1, Len(s) - 1)) + DigitVal(s[Len(s)])

IsDecimal(s) == s # <<>> /\ \A i \in 1..Len(s) : IsDigit(s[i])

\* data.get(key, default)
DataGet(data, key, default) == IF data[key].t = "absent" THEN default ELSE data[key]

\* int(x): a number converts, a string converts iff it is a decimal numeral
\* (surrounding whitespace allowed), None raises TypeError.
PyInt(x) ==
    IF x.t = "int" THEN [exc |-> None, ok |-> TRUE, v |-> x.n]
    ELSE IF x.t = "str" THEN
        IF IsDecimal(Strip(x.s)) THEN [exc |-> None, ok |-> TRUE, v |-> DecimalVal(Strip(x.s))]
        ELSE [exc |-> "ValueError", ok |-> FALSE, v |-> 0]
    ELSE [exc |-> "TypeError", ok |-> FALSE, v |-> 0]

\* float(x), in hundredths
PyFloat(x) ==
    IF x.t = "int" THEN [exc |-> None, ok |-> TRUE, v |-> 100 * x.n]
    ELSE IF x.t = "str" THEN
        IF IsDecimal(Strip(x.s)) THEN [exc |-> None, ok |-> TRUE, v |-> 100 * DecimalVal(Strip(x.s))]
        ELSE [exc |-> "ValueError", ok |-> FALSE, v |-> 0]
    ELSE [exc |-> "TypeError", ok |-> FALSE, v |-> 0]

\* truth value of a body value (Python truthiness)
Truthy(x) ==
    \/ x.t = "int" /\ x.n # 0
    \/ x.t = "bool" /\ x.n # 0
    \/ x.t = "str" /\ x.s # <<>>

\* ---------------------------------------------------------------- client singletons
ClientNames == {"_bedrock_agent_runtime", "_bedrock_runtime", "_bedrock_agent",
                "_s3_client", "_gemini_client"}

NoHandle == 0     \* the unset singleton (None); a constructed client is a positive handle

\* The threads of a multi-threaded server that may be inside a getter together
Threads == {1, 2}

NotReturned == -1   \* the thread has not returned from a getter yet
Raised == -2        \* its last getter call raised

\* a thread outside the getters.  name is the global of the getter it is in,
\* local the client it constructed and has not stored yet, ret what its last
\* call returned, atStart the handle stored when its call started if no
\* other thread was inside the same getter then, calls its finished calls
IdleThread ==
    [atStart |-> NoHandle, calls |-> 0, local |-> NoHandle, name |-> "none",
     pc |-> "idle", ret |-> NotReturned]

\* a getter constructing a client on every call
GetClient_AlwaysNew(cl, name) ==
    [h |-> [cl.h EXCEPT ![name] = cl.n[name] + 1],
     n |-> [cl.n EXCEPT ![name] = cl.n[name] + 1]]

\* The body shared by the four boto3 getters: construct on first use, then reuse.
\* cl is the pair of the handles (h) and the constructor counts (n).
GetClient(cl, name) ==
    IF cl.h[name] = NoHandle
    THEN [h |-> [cl.h EXCEPT ![name] = cl.n[name] + 1],
          n |-> [cl.n EXCEPT ![name] = cl.n[name] + 1]]
    ELSE cl

get_bedrock_agent_runtime(cl) == GetClient(cl, "_bedrock_agent_runtime")
get_bedrock_runtime(cl) == GetClient(cl, "_bedrock_runtime")
get_bedrock_agent(cl) == GetClient(cl, "_bedrock_agent")
get_s3_client(cl) == GetClient(cl, "_s3_client")

\* get_gemini_client constructing the client before it looks at the key
get_gemini_client_ConstructFirst(cl) ==
    IF cl.h["_gemini_client"] = NoHandle
    THEN IF GEMINI_API_KEY = None
         THEN [cl |-> GetClient(cl, "_gemini_client"),
               err |-> "Missing GOOGLE_API_KEY environment variable.", ok |-> FALSE]
         ELSE [cl |-> GetClient(cl, "_gemini_client"), err |-> None, ok |-> TRUE]
    ELSE [cl |-> cl, err |-> None, ok |-> TRUE]

\* get_gemini_client: raises before constructing when the API key is missing
get_gemini_client(cl) ==
    IF cl.h["_gemini_client"] = NoHandle
    THEN IF GEMINI_API_KEY = None
         THEN [cl |-> cl, err |-> "Missing GOOGLE_API_KEY environment variable.", ok |-> FALSE]
         ELSE [cl |-> GetClient(cl, "_gemini_client"), err |-> None, ok |-> TRUE]
    ELSE [cl |-> cl, err |-> None, ok |-> TRUE]

\* ---------------------------------------------------------------- retrieval
\* A search hit carries a text, an empty text, or no text at all.
NoText == <<"<no text>">>
HitText(hit) == IF hit = NoText THEN <<>> ELSE hit

\* the loop over response["retrievalResults"]: keep the non-empty texts
RECURSIVE ExtractChunks(_)
ExtractChunks(hits) ==
    IF hits = <<>> THEN <<>>
    ELSE IF HitText(Head(hits)) # <<>>
         THEN <<HitText(Head(hits))>> \o ExtractChunks(Tail(hits))
         ELSE ExtractChunks(Tail(hits))

\* retrieve_from_bedrock returning a text only the first time it occurs
retrieve_from_bedrock_Dedup(cl, query, k, search_type, reranking, metadata_filter, ext) ==
    IF KNOWLEDGE_BASE_ID = None
    THEN [calls |-> <<>>,
          cl |-> cl,
          err |-> "KNOWLEDGE_BASE_ID not configured. Run setup_aws_infrastructure.py first.", ok |-> FALSE, value |-> <<>>]
    ELSE LET cl1 == get_bedrock_agent_runtime(cl)
             call == [arg |-> [filter |-> IF Truthy(metadata_filter) THEN metadata_filter ELSE JAbsent,
                               knowledgeBaseId |-> KNOWLEDGE_BASE_ID,
                               numberOfResults |-> k,
                               overrideSearchType |-> search_type,
                               rerankingConfiguration |-> Truthy(reranking),
                               text |-> query],
                      fn |-> "client.retrieve",
                      ret |-> ext]
             chunks == ExtractChunks(ext.hits)
             first == {i \in 1..Len(chunks) : \A j \in 1..(i - 1) : chunks[j] # chunks[i]}
         IN  IF ext.ok
             THEN [calls |-> <<call>>, cl |-> cl1, err |-> None,
                   ok |-> TRUE,
                   value |-> [n \in 1..Cardinality(first) |->
                                 chunks[CHOOSE i \in first :
                                            Cardinality({j \in first : j <= i}) = n]]]
             ELSE [calls |-> <<call>>, cl |-> cl1, err |-> ext.err,
                   ok |-> FALSE, value |-> <<>>]

\* retrieve_from_bedrock(query, k, search_type, reranking, metadata_filter);
\* ext is what the external retrieve call does when it is made.
retrieve_from_bedrock(cl, query, k, search_type, reranking, metadata_filter, ext) ==
    IF KNOWLEDGE_BASE_ID = None
    THEN [calls |-> <<>>,
          cl |-> cl,
          err |-> "KNOWLEDGE_BASE_ID not configured. Run setup_aws_infrastructure.py first.", ok |-> FALSE, value |-> <<>>]
    ELSE LET cl1 == get_bedrock_agent_runtime(cl)
             call == [arg |-> [filter |-> IF Truthy(metadata_filter) THEN metadata_filter ELSE JAbsent,
                               knowledgeBaseId |-> KNOWLEDGE_BASE_ID,
                               numberOfResults |-> k,
                               overrideSearchType |-> search_type,
                               rerankingConfiguration |-> Truthy(reranking),
                               text |-> query],
                      fn |-> "client.retrieve",
                      ret |-> ext]
         IN  IF ext.ok
             THEN [calls |-> <<call>>, cl |-> cl1, err |-> None,
                   ok |-> TRUE, value |-> ExtractChunks(ext.hits)]
             ELSE [calls |-> <<call>>, cl |-> cl1, err |-> ext.err,
                   ok |-> FALSE, value |-> <<>>]

\* ---------------------------------------------------------------- generation
\* _build_prompt: the fixed template around context and question
_build_prompt(context, question) ==
    <<"Use the following context to answer the question clearly.", "\n", "\n",
      "Context:", "\n">> \o context \o <<"\n", "\n", "Question: ">> \o question
      \o <<"\n", "Answer:">>

\* ask_bedrock_llm calling invoke_model a second time when it fails
ask_bedrock_llm_Retry(cl, context, question, temperature, top_p, top_k, max_tokens, ext) ==
    LET cl1 == get_bedrock_runtime(cl)
        call == [arg |-> [content |-> _build_prompt(context, question), max_tokens |-> max_tokens,
                          temperature |-> temperature, top_k |-> top_k,
                          top_p |-> top_p],
                 fn |-> "client.invoke_model",
                 ret |-> ext]
    IN  IF ~ext.ok
        THEN [calls |-> <<call, call>>, cl |-> cl1, err |-> ext.err, ok |-> FALSE, value |-> <<>>]
        ELSE IF ext.text = NoText
        THEN [calls |-> <<call>>, cl |-> cl1, err |-> "'text'", ok |-> FALSE, value |-> <<>>]
        ELSE [calls |-> <<call>>, cl |-> cl1, err |-> None, ok |-> TRUE,
              value |-> Strip(ext.text)]

\* ask_bedrock_llm; ext is what invoke_model does when it is called
ask_bedrock_llm(cl, context, question, temperature, top_p, top_k, max_tokens, ext) ==
    LET cl1 == get_bedrock_runtime(cl)
        call == [arg |-> [content |-> _build_prompt(context, question), max_tokens |-> max_tokens,
                          temperature |-> temperature, top_k |-> top_k,
                          top_p |-> top_p],
                 fn |-> "client.invoke_model",
                 ret |-> ext]
    IN  IF ~ext.ok
        THEN [calls |-> <<call>>, cl |-> cl1, err |-> ext.err, ok |-> FALSE, value |-> <<>>]
        ELSE IF ext.text = NoText
        THEN [calls |-> <<call>>, cl |-> cl1, err |-> "'text'", ok |-> FALSE, value |-> <<>>]
        ELSE [calls |-> <<call>>, cl |-> cl1, err |-> None, ok |-> TRUE,
              value |-> Strip(ext.text)]

\* ask_gemini; ext is what generate_content does when it is called
ask_gemini(cl, context, question, temperature, top_p, top_k, max_tokens, ext) ==
    LET g == get_gemini_client(cl)
        call == [arg |-> [content |-> _build_prompt(context, question), max_tokens |-> max_tokens,
                          temperature |-> temperature, top_k |-> top_k,
                          top_p |-> top_p],
                 fn |-> "client.models.generate_content",
                 ret |-> ext]
    IN  IF ~g.ok
        THEN [calls |-> <<>>, cl |-> g.cl, err |-> g.err, ok |-> FALSE, value |-> <<>>]
        ELSE IF ~ext.ok
        THEN [calls |-> <<call>>, cl |-> g.cl, err |-> ext.err, ok |-> FALSE, value |-> <<>>]
        ELSE [calls |-> <<call>>, cl |-> g.cl,
              err |-> None,
              ok |-> TRUE, value |-> Strip(IF ext.text = NoText THEN <<>> ELSE ext.text)]

\* the entry of the call log for a call of one of the two backends
BackendCall(fn, context, question, b) ==
    [arg |-> [context |-> context, question |-> question], fn |-> fn,
     ret |-> [err |-> b.err, ok |-> b.ok, value |-> b.value]]

\* generate_answer trying Gemini when the Bedrock model fails
generate_answer_Fallback(cl, context, question, temperature, top_p, top_k, max_tokens, ext) ==
    IF USE_BEDROCK_LLM
    THEN LET b == ask_bedrock_llm(cl, context, question, temperature, top_p, top_k,
                                  max_tokens, ext)
             g == ask_gemini(b.cl, context, question, temperature, top_p, top_k,
                             max_tokens, ext)
         IN  IF b.ok
             THEN [b EXCEPT !.calls = <<BackendCall("ask_bedrock_llm", context, question, b)>> \o @]
             ELSE [g EXCEPT !.calls = <<BackendCall("ask_bedrock_llm", context, question, b)>>
                                      \o b.calls
                                      \o <<BackendCall("ask_gemini", context, question, g)>> \o @]
    ELSE LET g == ask_gemini(cl, context, question, temperature, top_p, top_k,
                             max_tokens, ext)
         IN  [g EXCEPT !.calls = <<BackendCall("ask_gemini", context, question, g)>> \o @]

\* generate_answer: dispatch on the static flag; the call of the backend is
\* logged before the external calls the backend makes
generate_answer(cl, context, question, temperature, top_p, top_k, max_tokens, ext) ==
    IF USE_BEDROCK_LLM
    THEN LET b == ask_bedrock_llm(cl, context, question, temperature, top_p, top_k,
                                  max_tokens, ext)
         IN  [b EXCEPT !.calls = <<BackendCall("ask_bedrock_llm", context, question, b)>> \o @]
    ELSE LET g == ask_gemini(cl, context, question, temperature, top_p, top_k,
                             max_tokens, ext)
         IN  [g EXCEPT !.calls = <<BackendCall("ask_gemini", context, question, g)>> \o @]

\* ---------------------------------------------------------------- ingestion services
\* config.py
ALLOWED_EXTENSIONS ==
    { <<".", "t", "x", "t">>, <<".", "p", "d", "f">>, <<".", "m", "d">>,
      <<".", "c", "s", "v">>, <<".", "h", "t", "m", "l">>, <<".", "h", "t", "m">>,
      <<".", "d", "o", "c">>, <<".", "d", "o", "c", "x">> }

\* the storage key made from the lower-cased name
StorageKey_Lowered(filename) == <<"documents/">> \o Lower(filename)

\* the storage key of a file
StorageKey(filename) == <<"documents/">> \o filename

\* upload_to_s3(file); bkt is the content of the object store, ext what the
\* external upload call does when it is made
upload_to_s3(cl, filename, bkt, ext) ==
    IF S3_BUCKET_NAME = None
    THEN [bucket |-> bkt, calls |-> <<>>, cl |-> cl,
          err |-> "S3_BUCKET_NAME not configured.", ok |-> FALSE, value |-> <<>>]
    ELSE LET cl1 == get_s3_client(cl)
             key == StorageKey(filename)
             call == [arg |-> [Bucket |-> S3_BUCKET_NAME, Key |-> key],
                      fn |-> "s3.upload_fileobj",
                      ret |-> ext]
         IN  IF ext.ok
             THEN [bucket |-> bkt \cup {key}, calls |-> <<call>>, cl |-> cl1, err |-> None,
                   ok |-> TRUE, value |-> key]
             ELSE [bucket |-> bkt, calls |-> <<call>>, cl |-> cl1, err |-> ext.err,
                   ok |-> FALSE, value |-> <<>>]

\* a job as the external service creates it; times are ticks of its clock
NewJob(id) == [ingestionJobId |-> id, startedAt |-> id, status |-> "STARTING",
               updatedAt |-> id]

\* start_ingestion_job(); js are the jobs of the external service, ext what
\* the external start call does when it is made
start_ingestion_job(cl, js, ext) ==
    IF KNOWLEDGE_BASE_ID = None \/ DATA_SOURCE_ID = None
    THEN [calls |-> <<>>, cl |-> cl,
          err |-> "KNOWLEDGE_BASE_ID or DATA_SOURCE_ID not configured.", jobs |-> js, ok |-> FALSE, value |-> 0]
    ELSE LET cl1 == get_bedrock_agent(cl)
             call == [arg |-> [dataSourceId |-> DATA_SOURCE_ID,
                               knowledgeBaseId |-> KNOWLEDGE_BASE_ID],
                      fn |-> "client.start_ingestion_job",
                      ret |-> ext]
         IN  IF ext.ok
             THEN [calls |-> <<call>>, cl |-> cl1, err |-> None, jobs |-> Append(js, NewJob(Len(js) + 1)),
                   ok |-> TRUE, value |-> Len(js) + 1]
             ELSE [calls |-> <<call>>, cl |-> cl1, err |-> ext.err, jobs |-> js,
                   ok |-> FALSE, value |-> 0]

\* None and the empty dict: both are false in `if job:`
NoJob == <<>>

\* get_ingestion_job_by_id(job_id); js are the jobs of the external service,
\* ext what the external lookup does when it is made: it answers from its
\* jobs (an unknown id raises), fails, or answers without a job record
get_ingestion_job_by_id(cl, job_id, js, ext) ==
    IF KNOWLEDGE_BASE_ID = None \/ DATA_SOURCE_ID = None
    THEN [calls |-> <<>>, cl |-> cl, err |-> None, ok |-> TRUE, value |-> NoJob]
    ELSE LET cl1 == get_bedrock_agent(cl)
             call == [arg |-> [dataSourceId |-> DATA_SOURCE_ID,
                               ingestionJobId |-> job_id,
                               knowledgeBaseId |-> KNOWLEDGE_BASE_ID],
                      fn |-> "client.get_ingestion_job",
                      ret |-> ext]
         IN  [calls |-> <<call>>, cl |-> cl1,
              err |-> None,
              ok |-> TRUE, value |-> IF ext = "answer" /\ job_id \in 1..Len(js) THEN js[job_id] ELSE NoJob]

\* what list_ingestion_jobs answers for maxResults = n: the service lists its
\* jobs newest first
ListIngestionJobs(js, n) ==
    [i \in 1..(IF Len(js) < n THEN Len(js) ELSE n) |-> js[Len(js) + 1 - i]]

ListOk(summaries) == [err |-> None, ok |-> TRUE, value |-> summaries]
ListFails == [err |-> "ListError", ok |-> FALSE, value |-> <<>>]

\* get_ingestion_status answering from a remembered result once its client exists
get_ingestion_status_Memo(cl, js, ext) ==
    IF KNOWLEDGE_BASE_ID = None \/ DATA_SOURCE_ID = None \/ cl.h["_bedrock_agent"] # NoHandle
    THEN [calls |-> <<>>, cl |-> cl, err |-> None, ok |-> TRUE, value |-> NoJob]
    ELSE LET cl1 == get_bedrock_agent(cl)
             listed == ListIngestionJobs(js, 1)
             call == [arg |-> [dataSourceId |-> DATA_SOURCE_ID,
                               knowledgeBaseId |-> KNOWLEDGE_BASE_ID,
                               maxResults |-> 1],
                      fn |-> "client.list_ingestion_jobs",
                      ret |-> IF ext = "answer" THEN ListOk(listed) ELSE ListFails]
         IN  IF ext = "answer"
             THEN [calls |-> <<call>>, cl |-> cl1, err |-> None, ok |-> TRUE,
                   value |-> IF listed # <<>> THEN listed[1] ELSE NoJob]
             ELSE [calls |-> <<call>>, cl |-> cl1, err |-> ListFails.err, ok |-> FALSE,
                   value |-> NoJob]

\* get_ingestion_status(); js are the jobs of the external service, ext says
\* whether the external listing answers ("answer") or raises ("error"); the
\* call is not inside a try, so its exception is the function's
get_ingestion_status(cl, js, ext) ==
    IF KNOWLEDGE_BASE_ID = None \/ DATA_SOURCE_ID = None
    THEN [calls |-> <<>>, cl |-> cl, err |-> None, ok |-> TRUE, value |-> NoJob]
    ELSE LET cl1 == get_bedrock_agent(cl)
             listed == ListIngestionJobs(js, 1)
             call == [arg |-> [dataSourceId |-> DATA_SOURCE_ID,
                               knowledgeBaseId |-> KNOWLEDGE_BASE_ID,
                               maxResults |-> 1],
                      fn |-> "client.list_ingestion_jobs",
                      ret |-> IF ext = "answer" THEN ListOk(listed) ELSE ListFails]
         IN  IF ext = "answer"
             THEN [calls |-> <<call>>, cl |-> cl1, err |-> None, ok |-> TRUE,
                   value |-> IF listed # <<>> THEN listed[1] ELSE NoJob]
             ELSE [calls |-> <<call>>, cl |-> cl1, err |-> ListFails.err, ok |-> FALSE,
                   value |-> NoJob]

\* obj["Key"].endswith("/"): a key is the prefix "documents/" followed by the
\* characters of the file name; the folder marker is the prefix alone
EndsWithSlash(key) == key[Len(key)] = "/" \/ key[Len(key)] = "documents/"

FolderMarker == <<"documents/">>

\* get_document_count counting every listed key, the folder marker included
get_document_count_CountsAll(cl, bkt, ext) ==
    LET cl1 == get_s3_client(cl)
        call == [arg |-> [Bucket |-> S3_BUCKET_NAME, Prefix |-> "documents/"],
                 fn |-> "s3.list_objects_v2",
                 ret |-> ext]
    IN  IF S3_BUCKET_NAME = None
        THEN [calls |-> <<>>, cl |-> cl1, err |-> None, ok |-> TRUE, value |-> 0]
        ELSE [calls |-> <<call>>, cl |-> cl1, err |-> None, ok |-> TRUE,
              value |-> IF ext.ok THEN Cardinality(bkt) ELSE 0]

\* get_document_count(); bkt are the keys in the bucket, ext what the
\* external listing does when it is made.  Every exception is caught and
\* counted as 0; an unset bucket name is refused by the client library
\* before a request is sent
get_document_count(cl, bkt, ext) ==
    LET cl1 == get_s3_client(cl)
        call == [arg |-> [Bucket |-> S3_BUCKET_NAME, Prefix |-> "documents/"],
                 fn |-> "s3.list_objects_v2",
                 ret |-> ext]
    IN  IF S3_BUCKET_NAME = None
        THEN [calls |-> <<>>, cl |-> cl1, err |-> None, ok |-> TRUE, value |-> 0]
        ELSE [calls |-> <<call>>, cl |-> cl1, err |-> None, ok |-> TRUE,
              value |-> IF ext.ok
                        THEN Cardinality({k \in bkt : ~EndsWithSlash(k)})
                        ELSE 0]

\* ---------------------------------------------------------------- responses
\* jsonify(body), status: a response the handler returned
Json(code, body) == [body |-> body, code |-> code, handled |-> TRUE]

\* an exception that left the handler: the framework answers with its own
\* 500 page, which is not a JSON body of the handler
Unhandled(exc) == [body |-> [exception |-> exc], code |-> 500, handled |-> FALSE]

Call(fn, arg, ret) == [arg |-> arg, fn |-> fn, ret |-> ret]
Ret(r) == [err |-> r.err, ok |-> r.ok, value |-> r.value]

\* ---------------------------------------------------------------- POST /ask
AskKeys == {"question", "top_k", "search_type", "reranking", "metadata_filter",
            "temperature", "top_p", "llm_top_k", "max_tokens"}

\* request.get_json(force=True, silent=True) or {}: an unparsable or empty body
\* becomes {}, an object is itself, any other JSON value (an array) stays a
\* value without .get
EmptyData == [key \in AskKeys |-> JAbsent]

\* lines 124-140 of ask: read the body, parse the parameters, validate the
\* question.  Gives the response when the handler ends here, the parsed
\* parameters otherwise.
ask_parse(body) ==
    IF body.kind = "array" THEN [done |-> TRUE, resp |-> Unhandled("AttributeError")]
    ELSE
    LET data == IF body.kind = "object" THEN body.data ELSE EmptyData
        q == DataGet(data, "question", JNull)
        k == PyInt(DataGet(data, "top_k", JInt(4)))
        search_type == DataGet(data, "search_type", JStr(<<"SEMANTIC">>))
        reranking == DataGet(data, "reranking", [n |-> 0, s |-> <<>>, t |-> "bool"])
        metadata_filter == DataGet(data, "metadata_filter", JNull)
        temperature == PyFloat(DataGet(data, "temperature", JInt(1)))
        top_p == IF data["top_p"].t = "absent" THEN [exc |-> None, ok |-> TRUE, v |-> 95]
                 ELSE PyFloat(data["top_p"])
        llm_top_k == PyInt(DataGet(data, "llm_top_k", JInt(40)))
        max_tokens == PyInt(DataGet(data, "max_tokens", JInt(1024)))
        question == IF Truthy(q) THEN Strip(q.s) ELSE <<>>
    IN  IF Truthy(q) /\ q.t # "str" THEN [done |-> TRUE, resp |-> Unhandled("AttributeError")]
        ELSE IF ~k.ok THEN [done |-> TRUE, resp |-> Unhandled(k.exc)]
        ELSE IF ~temperature.ok THEN [done |-> TRUE, resp |-> Unhandled(temperature.exc)]
        ELSE IF ~top_p.ok THEN [done |-> TRUE, resp |-> Unhandled(top_p.exc)]
        ELSE IF ~llm_top_k.ok THEN [done |-> TRUE, resp |-> Unhandled(llm_top_k.exc)]
        ELSE IF ~max_tokens.ok THEN [done |-> TRUE, resp |-> Unhandled(max_tokens.exc)]
        ELSE IF question = <<>>
        THEN [done |-> TRUE,
              resp |-> Json(400, [error |-> "Provide 'question' in JSON body."])]
        ELSE [done |-> FALSE, k |-> k.v, llm_top_k |-> llm_top_k.v,
              max_tokens |-> max_tokens.v, metadata_filter |-> metadata_filter,
              question |-> question, reranking |-> reranking,
              search_type |-> search_type, temperature |-> temperature.v, top_p |-> top_p.v]

\* ask without the `if not chunks` answer
ask_retrieved_NoEmptyCheck(p, r) ==
    IF ~r.ok THEN [done |-> TRUE, resp |-> Json(500, [error |-> r.err])]
    ELSE [done |-> FALSE]

\* ask answering a retrieval error like an empty result
ask_retrieved_ErrorAs404(p, r) ==
    IF ~r.ok \/ r.value = <<>>
    THEN [done |-> TRUE,
          resp |-> Json(404, [error |-> "No relevant documents found. Upload documents and sync first.",
                              question |-> p.question])]
    ELSE [done |-> FALSE]

\* lines 142-156 of ask: the retrieval call and the no-chunks answer.
\* p is the parsed request, r what retrieve_from_bedrock returned or raised.
ask_retrieved(p, r) ==
    IF ~r.ok THEN [done |-> TRUE, resp |-> Json(500, [error |-> r.err])]
    ELSE IF r.value = <<>>
    THEN [done |-> TRUE,
          resp |-> Json(404, [error |-> "No relevant documents found. Upload documents and sync first.",
                              question |-> p.question])]
    ELSE [done |-> FALSE]

\* lines 158-179 of ask: the generation call and the answer.
\* chunks is the retrieval result, g what generate_answer returned or raised.
ask_generated(p, chunks, g) ==
    IF ~g.ok THEN Json(500, [error |-> g.err])
    ELSE Json(200, [answer |-> g.value, context |-> chunks, question |-> p.question,
                    reranking |-> p.reranking, search_type |-> p.search_type, top_k |-> p.k])

\* ---------------------------------------------------------------- POST /upload
FailedToUpload(filename, err) == <<"Failed to upload ">> \o filename \o <<": ", err>>

NoValidFiles == "No valid files uploaded. Allowed types: <ALLOWED_EXTENSIONS>"

StorageOk == [err |-> None, ok |-> TRUE]
StorageFails == [err |-> "S3Error", ok |-> FALSE]

\* upload accepting every file that has a name
is_allowed_AnyName(filename) == filename # <<>>

\* lines 54-56 of upload: a file takes part iff it has a name and the
\* extension of the lower-cased name is in the allow-list
is_allowed(filename) ==
    filename # <<>> /\ SplitExt(Lower(filename)) \in ALLOWED_EXTENSIONS

\* upload listing the newest file first
record_uploaded_Prepend(uploaded, filename) == <<filename>> \o uploaded

\* line 59 of upload: uploaded.append(f.filename)
record_uploaded(uploaded, filename) == Append(uploaded, filename)

\* upload going on with the next file after a storage failure
upload_file_NoAbort(st, filename, ext) ==
    IF is_allowed(filename)
    THEN LET u == upload_to_s3(st.cl, filename, st.bucket, ext)
             calls == st.calls \o <<Call("upload_to_s3", filename, Ret(u))>> \o u.calls
         IN  IF u.ok
             THEN [st EXCEPT !.cl = u.cl, !.bucket = u.bucket,
                             !.uploaded = record_uploaded(st.uploaded, filename),
                             !.calls = calls]
             ELSE [st EXCEPT !.cl = u.cl, !.calls = calls]
    ELSE st

\* lines 54-61 of upload: the body of the loop for one file.  ext is what
\* the storage call does when it is made; st carries the client handles,
\* the object store, the names uploaded so far, the calls made and, once
\* the loop has aborted, the response.
upload_file(st, filename, ext) ==
    IF is_allowed(filename)
    THEN LET u == upload_to_s3(st.cl, filename, st.bucket, ext)
             calls == st.calls \o <<Call("upload_to_s3", filename, Ret(u))>> \o u.calls
         IN  IF u.ok
             THEN [st EXCEPT !.cl = u.cl, !.bucket = u.bucket,
                             !.uploaded = record_uploaded(st.uploaded, filename),
                             !.calls = calls]
             ELSE [st EXCEPT !.cl = u.cl, !.calls = calls, !.aborted = TRUE,
                             !.resp = Json(500, [error |-> FailedToUpload(filename, u.err)])]
    ELSE st

\* lines 53-61 of upload: the loop over the submitted files, from file i
\* on; the return in the except clause leaves it.  failAt is the position
\* whose storage call fails when it is made (0: none fails).
RECURSIVE upload_loop(_, _, _, _)
upload_loop(files, i, failAt, st) ==
    IF i > Len(files) \/ st.aborted THEN st
    ELSE upload_loop(files, i + 1, failAt,
                     upload_file(st, files[i], IF i = failAt THEN StorageFails ELSE StorageOk))

\* upload without the `if not uploaded` answer
upload_checked_Never(uploaded) ==
    [done |-> FALSE, resp |-> Json(0, [none |-> TRUE])]

\* lines 63-64 of upload: nothing was uploaded
upload_checked(uploaded) ==
    IF uploaded = <<>>
    THEN [done |-> TRUE, resp |-> Json(400, [error |-> NoValidFiles])]
    ELSE [done |-> FALSE, resp |-> Json(0, [none |-> TRUE])]

\* upload answering a failed start like /sync does
upload_synced_ErrorOnFailure(uploaded, j) ==
    IF j.ok
    THEN Json(200, [ingestion_job_id |-> j.value, message |-> "Documents uploaded. Ingestion started - this may take a few minutes.",
                    uploaded |-> uploaded])
    ELSE Json(500, [error |-> j.err])

\* lines 66-78 of upload: the answer once the ingestion job was started or
\* failed to start; j is what start_ingestion_job returned or raised
upload_synced(uploaded, j) ==
    IF j.ok
    THEN Json(200, [ingestion_job_id |-> j.value, message |-> "Documents uploaded. Ingestion started - this may take a few minutes.",
                    uploaded |-> uploaded])
    ELSE Json(200, [uploaded |-> uploaded,
                    warning |-> <<"Documents uploaded but ingestion failed: ", j.err>>])

\* ---------------------------------------------------------------- GET /ingestion-status/<job_id>
\* str(x) of a clock value: its decimal numeral
PyStr(n) == <<Digits[n + 1]>>

\* job.get(key, default)
JobGet(job, key, default) == IF key \in DOMAIN job THEN job[key] ELSE default

\* str(job.get(key, ""))
JobTime(job, key) == IF key \in DOMAIN job THEN PyStr(job[key]) ELSE <<>>

\* /ingestion-status answering 500 when the lookup returned no job
ingestion_status_LookupFailed(job) ==
    IF DOMAIN job # {}
    THEN Json(200, [failure_reasons |-> JobGet(job, "failureReasons", <<>>),
                    started_at |-> JobTime(job, "startedAt"),
                    status |-> JobGet(job, "status", None),
                    updated_at |-> JobTime(job, "updatedAt")])
    ELSE Json(500, [error |-> "Job lookup failed"])

\* lines 98-105 of ingestion_status; job is what get_ingestion_job_by_id returned
ingestion_status(job) ==
    IF DOMAIN job # {}
    THEN Json(200, [failure_reasons |-> JobGet(job, "failureReasons", <<>>),
                    started_at |-> JobTime(job, "startedAt"),
                    status |-> JobGet(job, "status", None),
                    updated_at |-> JobTime(job, "updatedAt")])
    ELSE Json(404, [error |-> "Job not found", status |-> "not_found"])

\* ------------------------------------------------------------ GET /sync/status
\* /sync/status renaming the status it reports
sync_status_Interpreted(r) ==
    IF ~r.ok
    THEN Unhandled(r.err)
    ELSE IF DOMAIN r.value # {}
         THEN Json(200, [started_at |-> JobTime(r.value, "startedAt"),
                         status |-> IF JobGet(r.value, "status", None) = "IN_PROGRESS"
                                    THEN "running"
                                    ELSE JobGet(r.value, "status", None),
                         updated_at |-> JobTime(r.value, "updatedAt")])
         ELSE Json(200, [status |-> "no_jobs_found"])

\* lines 111-118 of sync_status; r is what get_ingestion_status returned or
\* raised: nothing in the handler catches its exception
sync_status(r) ==
    IF ~r.ok
    THEN Unhandled(r.err)
    ELSE IF DOMAIN r.value # {}
         THEN Json(200, [started_at |-> JobTime(r.value, "startedAt"),
                         status |-> JobGet(r.value, "status", None),
                         updated_at |-> JobTime(r.value, "updatedAt")])
         ELSE Json(200, [status |-> "no_jobs_found"])

\* ---------------------------------------------------------------- GET /health
\* lines 25-31 of health
HealthStatus(doc_count) ==
    [document_count |-> doc_count,
     knowledge_base_configured |-> KNOWLEDGE_BASE_ID # None,
     llm |-> IF USE_BEDROCK_LLM THEN "bedrock" ELSE "gemini",
     s3_bucket_configured |-> S3_BUCKET_NAME # None,
     status |-> "healthy"]

\* lines 34-41 of health; doc_count is what get_document_count returned, r
\* what get_ingestion_status returned or raised: nothing in the handler
\* catches its exception
health(doc_count, r) ==
    IF ~r.ok
    THEN Unhandled(r.err)
    ELSE IF DOMAIN r.value # {}
         THEN Json(200, [k \in DOMAIN HealthStatus(doc_count) \cup {"last_ingestion"} |->
                            IF k = "last_ingestion"
                            THEN [started_at |-> JobTime(r.value, "startedAt"),
                                  status |-> JobGet(r.value, "status", None)]
                            ELSE HealthStatus(doc_count)[k]])
         ELSE Json(200, HealthStatus(doc_count))

\* ---------------------------------------------------------------- POST /sync
\* /sync answering 200 whatever start_ingestion_job did
sync_ErrorAs200(j) ==
    IF j.ok
    THEN Json(200, [ingestion_job_id |-> j.value, message |-> "Ingestion job started."])
    ELSE Json(200, [error |-> j.err])

\* lines 84-91 of sync; j is what start_ingestion_job returned or raised
sync(j) ==
    IF j.ok
    THEN Json(200, [ingestion_job_id |-> j.value, message |-> "Ingestion job started."])
    ELSE Json(500, [error |-> j.err])

\* ---------------------------------------------------------------- inputs
RECURSIVE SeqsUpTo(_, _)
SeqsUpTo(S, n) ==
    IF n = 0 THEN {<<>>}
    ELSE LET shorter == SeqsUpTo(S, n - 1)
         IN  shorter \cup {Append(q, x) : q \in {t \in shorter : Len(t) = n - 1}, x \in S}

JTrue == [n |-> 1, s |-> <<>>, t |-> "bool"]

Questions == {JAbsent, JStr(<<>>), JStr(<<" ", "\n">>), JStr(<<" ", "q", " ">>), JInt(5)}

\* the numeric parameters of a body: top_k, temperature, top_p, llm_top_k, max_tokens
ParamSets ==
    { <<JAbsent, JAbsent, JAbsent, JAbsent, JAbsent>>,
      <<JInt(2), JInt(0), JStr(<<"1">>), JStr(<<" ", "7">>), JInt(9)>>,
      <<JStr(<<"x">>), JAbsent, JAbsent, JAbsent, JAbsent>>,
      <<JAbsent, JAbsent, JAbsent, JAbsent, JNull>> }

\* search_type, reranking, metadata_filter
Options ==
    { <<JAbsent, JAbsent, JAbsent>>,
      <<JStr(<<"HYBRID">>), JTrue, JStr(<<"f">>)>> }

AskData(q, ps, o) ==
    [key \in AskKeys |->
        CASE key = "question" -> q
          [] key = "top_k" -> ps[1]
          [] key = "temperature" -> ps[2]
          [] key = "top_p" -> ps[3]
          [] key = "llm_top_k" -> ps[4]
          [] key = "max_tokens" -> ps[5]
          [] key = "search_type" -> o[1]
          [] key = "reranking" -> o[2]
          [] key = "metadata_filter" -> o[3]]

AskBodies ==
    {[data |-> AskData(q, ps, o), kind |-> "object"] :
        q \in Questions, ps \in ParamSets, o \in Options}
    \cup {[data |-> EmptyData, kind |-> "invalid"], [data |-> EmptyData, kind |-> "array"]}

\* a body whose search_type is spelled in lower case
LowerCaseOptions == <<JStr(<<"hybrid">>), JAbsent, JAbsent>>

\* the bodies sent to the single-file application
AppAskBodies ==
    AskBodies
    \cup {[data |-> AskData(JStr(<<" ", "q", " ">>), ps, LowerCaseOptions), kind |-> "object"] :
             ps \in ParamSets}

HitValues == {NoText, <<>>, <<"a">>, <<"b">>}

\* what the external retrieve call can do: fail, or return up to MaxHits hits
RetrieveOutcomes ==
    {[err |-> "RetrieveError", hits |-> <<>>, ok |-> FALSE]}
    \cup {[err |-> None, hits |-> h, ok |-> TRUE] : h \in SeqsUpTo(HitValues, MaxHits)}

\* what the external generation call can do: fail, return a text, return no text
GenOutcomes ==
    {[err |-> "GenerationError", ok |-> FALSE, text |-> NoText],
     [err |-> None, ok |-> TRUE, text |-> <<" ", "y", "\n">>],
     [err |-> None, ok |-> TRUE, text |-> NoText]}

\* ------------------------------------------- setup_aws_infrastructure.py
\* A line of the .env file is a sequence of tokens: a key is one token, so
\* are "=", "#", a blank and the line end.

\* str.startswith(prefix)
StartsWith(s, prefix) == Len(s) >= Len(prefix) /\ SubSeq(s, 1, Len(prefix)) = prefix

\* str.find(c), 1-based, 0 when c does not occur
Find(s, c) ==
    IF \E i \in 1..Len(s) : s[i] = c
    THEN CHOOSE i \in 1..Len(s) : s[i] = c /\ \A j \in 1..(i - 1) : s[j] # c
    ELSE 0

\* os.environ as load_env leaves it: a function from the keys set to their values
NoEnviron == [key \in {} |-> <<>>]

\* lines 38-41 of load_env: the body of the loop for one line
load_env_line(environ, line) ==
    LET stripped == Strip(line)
        eq == Find(stripped, "=")
        key == Strip(SubSeq(stripped, 1, eq - 1))
        value == Strip(SubSeq(stripped, eq + 1, Len(stripped)))
    IN  IF stripped # <<>> /\ ~StartsWith(stripped, <<"#">>) /\ eq > 0
        THEN [k \in DOMAIN environ \cup {key} |-> IF k = key THEN value ELSE environ[k]]
        ELSE environ

\* load_env: the lines of the file in order, a later line overrides an earlier
RECURSIVE load_env(_)
load_env(lines) ==
    IF lines = <<>> THEN NoEnviron
    ELSE load_env_line(load_env(SubSeq(lines, 1, Len(lines) - 1)), lines[Len(lines)])

\* os.environ.get(key, default)
EnvironGet(environ, key, default) == IF key \in DOMAIN environ THEN environ[key] ELSE default

\* f"rag-bedrock-docs-{uuid.uuid4().hex[:8]}"
GeneratedBucketName == <<"rag-bedrock-docs-", "<uuid>">>

\* line 53: the bucket name of the script, read once when it starts
SetupBucketName(lines) ==
    EnvironGet(load_env(lines), <<"S3_BUCKET_NAME">>, GeneratedBucketName)

\* lines 573-580 of update_env_file: the body of the loop for one line
update_env_line(line, kb_id, ds_id, bucket_name) ==
    IF StartsWith(line, <<"KNOWLEDGE_BASE_ID", "=">>)
    THEN <<"KNOWLEDGE_BASE_ID", "=">> \o kb_id \o <<"\n">>
    ELSE IF StartsWith(line, <<"DATA_SOURCE_ID", "=">>)
    THEN <<"DATA_SOURCE_ID", "=">> \o ds_id \o <<"\n">>
    ELSE IF StartsWith(line, <<"S3_BUCKET_NAME", "=">>)
    THEN <<"S3_BUCKET_NAME", "=">> \o bucket_name \o <<"\n">>
    ELSE line

\* lines 567-584 of update_env_file: the file read, every line rewritten or
\* kept, the file written.  The script has read .env when it started
\* (load_env leaves the script when the file is missing), so the copy from
\* .env.example on lines 559-564 is not taken.
update_env_file(lines, kb_id, ds_id, bucket_name) ==
    [i \in 1..Len(lines) |-> update_env_line(lines[i], kb_id, ds_id, bucket_name)]

\* an id the script has not obtained yet
NoId == <<>>

\* the steps of main, in the order of its statements
SetupSteps ==
    <<"create_s3_bucket", "create_bedrock_execution_role",
      "create_opensearch_serverless_collection", "create_vector_index",
      "create_bedrock_knowledge_base", "create_data_source", "update_env_file">>

\* the script before main: pc is the statement it is at, polled the status
\* its wait loop read last, steps the calls and returns of its steps so far
SetupAtStart ==
    [ds_id |-> NoId, kb_id |-> NoId, pc |-> "create_s3_bucket", polled |-> "none",
     steps |-> <<>>]

\* the resources the script waits for, before it has asked for them
NoResources == [collection |-> "NONE", knowledge_base |-> "NONE"]

\* a web process: no setup script is running beside it
NotProvisioning ==
    /\ envFile = <<>>
    /\ setup = [SetupAtStart EXCEPT !.pc = "not started"]
    /\ cloud = NoResources

\* ---------------------------------------------------------------- the process
NoRequest == [calls |-> <<>>, op |-> "none", req |-> None, resp |-> Json(0, [none |-> TRUE])]

InitState ==
    /\ singletons = [c \in ClientNames |-> NoHandle]
    /\ constructed = [c \in ClientNames |-> 0]
    /\ bucket = {}
    /\ jobs = <<>>
    /\ last = NoRequest
    /\ threads = [t \in Threads |-> IdleThread]
    /\ NotProvisioning

\* a handler returns: the request is recorded and the client handles it
\* created are kept
Finish(op, req, calls, resp, cl) ==
    /\ last' = [calls |-> calls, op |-> op, req |-> req, resp |-> resp]
    /\ singletons' = cl.h
    /\ constructed' = cl.n
    /\ UNCHANGED <<threads, provisioning>>

\* POST /ask
Ask ==
    \E body \in AskBodies :
    \E p \in {ask_parse(body)} :
        LET cl0 == [h |-> singletons, n |-> constructed]
        IN  /\ UNCHANGED <<config, bucket, jobs>>
            /\ IF p.done THEN Finish("ask", body, <<>>, p.resp, cl0)
               ELSE \E rext \in RetrieveOutcomes :
                    \E r \in {retrieve_from_bedrock(cl0, p.question, p.k, p.search_type,
                                                    p.reranking, p.metadata_filter, rext)} :
                    \E a \in {ask_retrieved(p, r)} :
                   LET c1 == <<Call("retrieve_from_bedrock",
                                    [k |-> p.k, metadata_filter |-> p.metadata_filter,
                                     query |-> p.question,
                                     reranking |-> p.reranking,
                                     search_type |-> p.search_type], Ret(r))>>
                             \o r.calls
                   IN  IF a.done THEN Finish("ask", body, c1, a.resp, r.cl)
                       ELSE \E gext \in GenOutcomes :
                            \E context \in {Join(r.value)} :
                            \E g \in {generate_answer(r.cl, context, p.question, p.temperature,
                                                      p.top_p, p.llm_top_k, p.max_tokens, gext)} :
                           LET c2 == c1 \o <<Call("generate_answer",
                                                  [context |-> context, max_tokens |-> p.max_tokens,
                                                   question |-> p.question,
                                                   temperature |-> p.temperature, top_k |-> p.llm_top_k,
                                                   top_p |-> p.top_p], Ret(g))>>
                                        \o g.calls
                           IN  Finish("ask", body, c2, ask_generated(p, r.value, g), g.cl)


\* the submitted file names: allowed, allowed in upper case, disallowed,
\* and the empty name of an unfilled file input
FileNames ==
    { <<"a", ".", "m", "d">>, <<"B", ".", "M", "D">>, <<"x", ".", "p", "y">>, <<>> }

\* a multipart request: without the 'files' field, or with one or more files
UploadRequests ==
    {[files |-> <<>>, has_files |-> FALSE]}
    \cup {[files |-> fs, has_files |-> TRUE] : fs \in SeqsUpTo(FileNames, MaxFiles) \ {<<>>}}

\* what the external start call can do: fail, or create a job (the service
\* holds at most MaxJobs jobs)
StartOutcomes(js) ==
    {[err |-> "StartError", ok |-> FALSE]}
    \cup (IF Len(js) < MaxJobs THEN {[err |-> None, ok |-> TRUE]} ELSE {})

\* POST /upload
Upload ==
    \E req \in UploadRequests :
        LET cl0 == [h |-> singletons, n |-> constructed]
        IN  /\ UNCHANGED config
            /\ IF ~req.has_files
               THEN /\ Finish("upload", req, <<>>,
                              Json(400, [error |-> "Send file(s) under 'files' form field."]), cl0)
                    /\ UNCHANGED <<bucket, jobs>>
               ELSE \E failAt \in 0..Len(req.files) :
                    \E st \in {upload_loop(req.files, 1, failAt,
                                           [aborted |-> FALSE, bucket |-> bucket, calls |-> <<>>,
                                            cl |-> cl0, resp |-> Json(0, [none |-> TRUE]),
                                            uploaded |-> <<>>])} :
                    /\ bucket' = st.bucket
                    /\ IF st.aborted
                       THEN Finish("upload", req, st.calls, st.resp, st.cl) /\ UNCHANGED jobs
                       ELSE IF upload_checked(st.uploaded).done
                       THEN /\ Finish("upload", req, st.calls,
                                      upload_checked(st.uploaded).resp, st.cl)
                            /\ UNCHANGED jobs
                       ELSE \E sext \in StartOutcomes(jobs) :
                            \E j \in {start_ingestion_job(st.cl, jobs, sext)} :
                            /\ jobs' = j.jobs
                            /\ Finish("upload", req,
                                      st.calls \o <<Call("start_ingestion_job", <<>>,
                                                         [err |-> j.err, ok |-> j.ok,
                                                          value |-> j.value])>> \o j.calls,
                                      upload_synced(st.uploaded, j), j.cl)

\* The /ask endpoint alone: configurations differ in what ask reads
InitAsk ==
    /\ KNOWLEDGE_BASE_ID \in {None, "kb-1"}
    /\ DATA_SOURCE_ID = "ds-1"
    /\ S3_BUCKET_NAME = "bucket-1"
    /\ GEMINI_API_KEY \in {None, "key-1"}
    /\ USE_BEDROCK_LLM \in BOOLEAN
    /\ InitState

NextAsk == Ask

SpecAsk == InitAsk /\ [][NextAsk]_vars

\* The /upload endpoint alone: configurations differ in what upload reads
InitUpload ==
    /\ KNOWLEDGE_BASE_ID \in {None, "kb-1"}
    /\ DATA_SOURCE_ID \in {None, "ds-1"}
    /\ S3_BUCKET_NAME \in {None, "bucket-1"}
    /\ GEMINI_API_KEY = None
    /\ USE_BEDROCK_LLM = FALSE
    /\ InitState

NextUpload == Upload

SpecUpload == InitUpload /\ [][NextUpload]_vars

\* POST /sync
Sync ==
    \E sext \in StartOutcomes(jobs) :
    \E j \in {start_ingestion_job([h |-> singletons, n |-> constructed], jobs, sext)} :
        /\ jobs' = j.jobs
        /\ Finish("sync", None,
                  <<Call("start_ingestion_job", <<>>,
                         [err |-> j.err, ok |-> j.ok, value |-> j.value])>> \o j.calls,
                  sync(j), j.cl)
        /\ UNCHANGED <<config, bucket>>

\* what the external job lookup can do
LookupOutcomes == {"answer", "error", "norecord"}

\* GET /ingestion-status/<job_id>
IngestionStatus ==
    \E job_id \in 1..(MaxJobs + 1) :
    \E ext \in LookupOutcomes :
    \E r \in {get_ingestion_job_by_id([h |-> singletons, n |-> constructed],
                                      job_id, jobs, ext)} :
        /\ Finish("ingestion_status", job_id,
                  <<Call("get_ingestion_job_by_id", job_id, Ret(r))>> \o r.calls,
                  ingestion_status(r.value), r.cl)
        /\ UNCHANGED <<config, bucket, jobs>>

\* what the external job listing can do
ListOutcomes == {"answer", "error"}

\* GET /sync/status
SyncStatus ==
    \E ext \in ListOutcomes :
    \E r \in {get_ingestion_status([h |-> singletons, n |-> constructed], jobs, ext)} :
        /\ Finish("sync_status", None,
                  <<Call("get_ingestion_status", <<>>, Ret(r))>> \o r.calls,
                  sync_status(r), r.cl)
        /\ UNCHANGED <<config, bucket, jobs>>

\* what the external object listing can do
CountOutcomes == {StorageOk, StorageFails}

\* GET /health
Health ==
    \E dext \in CountOutcomes :
    \E lext \in ListOutcomes :
    \E d \in {get_document_count([h |-> singletons, n |-> constructed], bucket, dext)} :
    \E r \in {get_ingestion_status(d.cl, jobs, lext)} :
        /\ Finish("health", None,
                  <<Call("get_document_count", <<>>, Ret(d))>> \o d.calls
                  \o <<Call("get_ingestion_status", <<>>, Ret(r))>> \o r.calls,
                  health(d.value, r), r.cl)
        /\ UNCHANGED <<config, bucket, jobs>>

\* The external service works on a job: STARTING, IN_PROGRESS, then COMPLETE
\* or FAILED with its failure reasons
JobProgress ==
    \E i \in 1..Len(jobs) :
        /\ \/ /\ jobs[i].status = "STARTING"
              /\ jobs' = [jobs EXCEPT ![i] = [@ EXCEPT !.status = "IN_PROGRESS",
                                                       !.updatedAt = @ + 1]]
           \/ /\ jobs[i].status = "IN_PROGRESS"
              /\ jobs' = [jobs EXCEPT ![i] = [@ EXCEPT !.status = "COMPLETE",
                                                       !.updatedAt = @ + 1]]
           \/ /\ jobs[i].status = "IN_PROGRESS"
              /\ jobs' = [jobs EXCEPT ![i] =
                            [k \in DOMAIN jobs[i] \cup {"failureReasons"} |->
                                CASE k = "failureReasons" -> <<"reason">>
                                  [] k = "status" -> "FAILED"
                                  [] k = "updatedAt" -> jobs[i].updatedAt + 1
                                  [] OTHER -> jobs[i][k]]]
        /\ UNCHANGED <<config, singletons, constructed, bucket, last, threads, provisioning>>

\* The ingestion-job endpoints alone: configurations differ in what they read
StoredBefore == {FolderMarker, StorageKey(<<"a", ".", "m", "d">>)}

\* and the bucket may hold documents stored before the process started
InitJobs ==
    /\ KNOWLEDGE_BASE_ID \in {None, "kb-1"}
    /\ DATA_SOURCE_ID \in {None, "ds-1"}
    /\ S3_BUCKET_NAME \in {None, "bucket-1"}
    /\ GEMINI_API_KEY = None
    /\ USE_BEDROCK_LLM = FALSE
    /\ singletons = [c \in ClientNames |-> NoHandle]
    /\ constructed = [c \in ClientNames |-> 0]
    /\ bucket \in {{}, StoredBefore}
    /\ jobs = <<>>
    /\ last = NoRequest
    /\ threads = [t \in Threads |-> IdleThread]
    /\ NotProvisioning

NextJobs == Sync \/ IngestionStatus \/ SyncStatus \/ Health \/ JobProgress

SpecJobs == InitJobs /\ [][NextJobs]_vars

\* ------------------------------------------------- the getters, step by step
\* the getters threads race on: one of the four boto3 getters and the Gemini one
RaceNames == {"_s3_client", "_gemini_client"}

\* the threads other than t that are inside the getter of name
Inside(t, name) == {u \in Threads \ {t} : threads[u].pc # "idle" /\ threads[u].name = name}

\* a thread calls a getter
GetterCall(t) ==
    /\ threads[t].pc = "idle"
    /\ threads[t].calls < MaxCalls
    /\ \E name \in RaceNames :
           threads' = [threads EXCEPT ![t] =
                          [@ EXCEPT !.pc = "check", !.name = name, !.local = NoHandle,
                                    !.atStart = IF Inside(t, name) = {}
                                                THEN singletons[name] ELSE NoHandle]]
    /\ UNCHANGED <<config, singletons, constructed, bucket, jobs, last, provisioning>>

\* `if _x is None:`, and for Gemini the key check under it that raises
GetterCheck(t) ==
    /\ threads[t].pc = "check"
    /\ threads' = [threads EXCEPT ![t] =
                      IF singletons[threads[t].name] # NoHandle
                      THEN [@ EXCEPT !.pc = "return"]
                      ELSE IF threads[t].name = "_gemini_client" /\ GEMINI_API_KEY = None
                      THEN [@ EXCEPT !.pc = "idle", !.ret = Raised, !.calls = @ + 1]
                      ELSE [@ EXCEPT !.pc = "construct"]]
    /\ UNCHANGED <<config, singletons, constructed, bucket, jobs, last, provisioning>>

\* the right-hand side of the assignment: boto3.client(...) or genai.Client(...)
GetterConstruct(t) ==
    /\ threads[t].pc = "construct"
    /\ constructed' = [constructed EXCEPT ![threads[t].name] = @ + 1]
    /\ threads' = [threads EXCEPT ![t] =
                      [@ EXCEPT !.pc = "store", !.local = constructed[threads[t].name] + 1]]
    /\ UNCHANGED <<config, singletons, bucket, jobs, last, provisioning>>

\* the assignment to the global
GetterStore(t) ==
    /\ threads[t].pc = "store"
    /\ singletons' = [singletons EXCEPT ![threads[t].name] = threads[t].local]
    /\ threads' = [threads EXCEPT ![t] = [@ EXCEPT !.pc = "return"]]
    /\ UNCHANGED <<config, constructed, bucket, jobs, last, provisioning>>

\* a getter returning the client the thread constructed itself
GetterReturn_Local(t) ==
    /\ threads[t].pc = "return"
    /\ threads' = [threads EXCEPT ![t] =
                      [@ EXCEPT !.pc = "idle", !.ret = threads[t].local,
                                !.calls = @ + 1]]
    /\ UNCHANGED <<config, singletons, constructed, bucket, jobs, last, provisioning>>

\* `return _x`: the global is read again
GetterReturn(t) ==
    /\ threads[t].pc = "return"
    /\ threads' = [threads EXCEPT ![t] =
                      [@ EXCEPT !.pc = "idle", !.ret = singletons[threads[t].name],
                                !.calls = @ + 1]]
    /\ UNCHANGED <<config, singletons, constructed, bucket, jobs, last, provisioning>>

\* Two threads calling getters, interleaved between the statements
InitRace ==
    /\ KNOWLEDGE_BASE_ID = "kb-1"
    /\ DATA_SOURCE_ID = "ds-1"
    /\ S3_BUCKET_NAME = "bucket-1"
    /\ GEMINI_API_KEY \in {None, "key-1"}
    /\ USE_BEDROCK_LLM = FALSE
    /\ InitState

NextRace ==
    \E t \in Threads :
        \/ GetterCall(t)
        \/ GetterCheck(t)
        \/ GetterConstruct(t)
        \/ GetterStore(t)
        \/ GetterReturn(t)

SpecRace == InitRace /\ [][NextRace]_vars

\* --------------------------------------- setup_aws_infrastructure.py: main
\* the lines an .env file is made of: the three keys the script writes back,
\* a key written with blanks around the "=", and a key of another kind
EnvLines ==
    { <<"KNOWLEDGE_BASE_ID", "=", "\n">>,
      <<"DATA_SOURCE_ID", "=", "ds-0", "\n">>,
      <<"S3_BUCKET_NAME", "=", "bucket-1", "\n">>,
      <<"DATA_SOURCE_ID", " ", "=", " ", "ds-0", "\n">>,
      <<"AWS_REGION", "=", "us-east-1", "\n">> }

\* what a provisioning call can do: create the resource, find that it exists
\* already (the conflict every step handles), or raise
CreateOutcomes == {"created", "exists", "error"}

\* what the status call of a wait loop can do: answer, or raise
PollOutcomes == {"answer", "error"}

\* the ids the knowledge-base service gives the resources of the fixed names
KbId == <<"kb-1">>
DsId == <<"ds-1">>

StepCalled(s, fn) == [s EXCEPT !.steps = @ \o << <<fn, "call">> >>]

\* the step returned: main goes on with its next statement
StepReturned(s, fn, next) ==
    [s EXCEPT !.pc = next, !.steps = @ \o << <<fn, "return">> >>]

\* the step raised: main's except clause prints the error and exits with 1
StepRaised(s, fn) ==
    [s EXCEPT !.pc = "exit(1)", !.steps = @ \o << <<fn, "raise">> >>]

\* a step without a wait loop, from its call to its return or its exception
StepDone(s, fn, outcome, next) ==
    IF outcome = "error"
    THEN StepRaised(StepCalled(s, fn), fn)
    ELSE StepReturned(StepCalled(s, fn), fn, next)

\* Step 1, create_s3_bucket: the bucket and the documents/ folder marker
CreateS3Bucket ==
    /\ setup.pc = "create_s3_bucket"
    /\ \E outcome \in CreateOutcomes :
        /\ setup' = StepDone(setup, "create_s3_bucket", outcome,
                             "create_bedrock_execution_role")
        /\ bucket' = IF outcome = "error" THEN bucket ELSE bucket \cup {FolderMarker}
    /\ UNCHANGED <<config, singletons, constructed, jobs, last, threads, envFile, cloud>>

\* Step 2, create_bedrock_execution_role
CreateBedrockExecutionRole ==
    /\ setup.pc = "create_bedrock_execution_role"
    /\ \E outcome \in CreateOutcomes :
        setup' = StepDone(setup, "create_bedrock_execution_role", outcome,
                          "create_opensearch_serverless_collection")
    /\ UNCHANGED <<config, singletons, constructed, bucket, jobs, last, threads, envFile, cloud>>

\* Step 3, create_opensearch_serverless_collection up to its wait loop
\* (lines 209-327): the policies and the collection
CreateCollection ==
    /\ setup.pc = "create_opensearch_serverless_collection"
    /\ \E outcome \in CreateOutcomes :
        /\ outcome = "created" => cloud.collection = "NONE"
        /\ outcome = "exists" => cloud.collection # "NONE"
        /\ setup' = IF outcome = "error"
                    THEN StepDone(setup, "create_opensearch_serverless_collection",
                                  outcome, "exit(1)")
                    ELSE [StepCalled(setup, "create_opensearch_serverless_collection")
                              EXCEPT !.pc = "wait_collection", !.polled = "none"]
        /\ cloud' = IF outcome = "created"
                    THEN [cloud EXCEPT !.collection = "CREATING"]
                    ELSE cloud
    /\ UNCHANGED <<config, singletons, constructed, bucket, jobs, last, threads, envFile>>

\* a wait loop that gives up, and returns, when it reads the same status twice
wait_iteration_GiveUp(s, fn, outcome, status, next) ==
    IF outcome = "error" THEN StepRaised([s EXCEPT !.polled = "error"], fn)
    ELSE IF status = "ACTIVE" \/ status = s.polled
    THEN StepReturned([s EXCEPT !.polled = status], fn, next)
    ELSE IF status = "FAILED" THEN StepRaised([s EXCEPT !.polled = status], fn)
    ELSE [s EXCEPT !.polled = status]

\* one iteration of a wait loop: the status call, then return on ACTIVE,
\* raise on FAILED, sleep and poll again on anything else
wait_iteration(s, fn, outcome, status, next) ==
    IF outcome = "error" THEN StepRaised([s EXCEPT !.polled = "error"], fn)
    ELSE IF status = "ACTIVE" THEN StepReturned([s EXCEPT !.polled = status], fn, next)
    ELSE IF status = "FAILED" THEN StepRaised([s EXCEPT !.polled = status], fn)
    ELSE [s EXCEPT !.polled = status]

\* Step 3, the wait loop of create_opensearch_serverless_collection
WaitCollection ==
    /\ setup.pc = "wait_collection"
    /\ \E outcome \in PollOutcomes :
        setup' = wait_iteration(setup, "create_opensearch_serverless_collection", outcome,
                                cloud.collection, "create_vector_index")
    /\ UNCHANGED <<config, singletons, constructed, bucket, jobs, last, threads, envFile, cloud>>

\* Step 4, create_vector_index
CreateVectorIndex ==
    /\ setup.pc = "create_vector_index"
    /\ \E outcome \in CreateOutcomes :
        setup' = StepDone(setup, "create_vector_index", outcome,
                          "create_bedrock_knowledge_base")
    /\ UNCHANGED <<config, singletons, constructed, bucket, jobs, last, threads, envFile, cloud>>

\* Step 5, create_bedrock_knowledge_base up to its wait loop (lines 447-489)
CreateKnowledgeBase ==
    /\ setup.pc = "create_bedrock_knowledge_base"
    /\ \E outcome \in CreateOutcomes :
        /\ outcome = "created" => cloud.knowledge_base = "NONE"
        /\ outcome = "exists" => cloud.knowledge_base # "NONE"
        /\ setup' = IF outcome = "error"
                    THEN StepDone(setup, "create_bedrock_knowledge_base", outcome, "exit(1)")
                    ELSE [StepCalled(setup, "create_bedrock_knowledge_base")
                              EXCEPT !.pc = "wait_knowledge_base", !.polled = "none",
                                     !.kb_id = KbId]
        /\ cloud' = IF outcome = "created"
                    THEN [cloud EXCEPT !.knowledge_base = "CREATING"]
                    ELSE cloud
    /\ UNCHANGED <<config, singletons, constructed, bucket, jobs, last, threads, envFile>>

\* Step 5, the wait loop of create_bedrock_knowledge_base
WaitKnowledgeBase ==
    /\ setup.pc = "wait_knowledge_base"
    /\ \E outcome \in PollOutcomes :
        setup' = wait_iteration(setup, "create_bedrock_knowledge_base", outcome,
                                cloud.knowledge_base, "create_data_source")
    /\ UNCHANGED <<config, singletons, constructed, bucket, jobs, last, threads, envFile, cloud>>

\* Step 6, create_data_source(kb_id)
CreateDataSource ==
    /\ setup.pc = "create_data_source"
    /\ \E outcome \in CreateOutcomes :
        setup' = IF outcome = "error"
                 THEN StepDone(setup, "create_data_source", outcome, "exit(1)")
                 ELSE [StepDone(setup, "create_data_source", outcome, "update_env_file")
                           EXCEPT !.ds_id = DsId]
    /\ UNCHANGED <<config, singletons, constructed, bucket, jobs, last, threads, envFile, cloud>>

\* Step 7, update_env_file(kb_id, ds_id), and the end of main
UpdateEnvFile ==
    /\ setup.pc = "update_env_file"
    /\ envFile' = update_env_file(envFile, setup.kb_id, setup.ds_id, S3_BUCKET_NAME)
    /\ setup' = StepDone(setup, "update_env_file", "created", "done")
    /\ UNCHANGED <<config, singletons, constructed, bucket, jobs, last, threads, cloud>>

\* The vector collection becomes ACTIVE or FAILED
CollectionProgress ==
    /\ cloud.collection = "CREATING"
    /\ \E status \in {"ACTIVE", "FAILED"} : cloud' = [cloud EXCEPT !.collection = status]
    /\ UNCHANGED <<config, singletons, constructed, bucket, jobs, last, threads, envFile, setup>>

\* The knowledge base becomes ACTIVE or FAILED
KnowledgeBaseProgress ==
    /\ cloud.knowledge_base = "CREATING"
    /\ \E status \in {"ACTIVE", "FAILED"} : cloud' = [cloud EXCEPT !.knowledge_base = status]
    /\ UNCHANGED <<config, singletons, constructed, bucket, jobs, last, threads, envFile, setup>>

\* what an earlier run of the script may have left behind
ResourcesBefore == {"NONE", "ACTIVE"}

\* The setup script alone: it starts from an .env file of up to MaxLines
\* lines; in this specification S3_BUCKET_NAME is the global of the script
\* (line 53), a string like the values of the file
InitSetup ==
    /\ envFile \in SeqsUpTo(EnvLines, MaxLines)
    /\ S3_BUCKET_NAME = SetupBucketName(envFile)
    /\ KNOWLEDGE_BASE_ID = None
    /\ DATA_SOURCE_ID = None
    /\ GEMINI_API_KEY = None
    /\ USE_BEDROCK_LLM = FALSE
    /\ singletons = [c \in ClientNames |-> NoHandle]
    /\ constructed = [c \in ClientNames |-> 0]
    /\ bucket = {}
    /\ jobs = <<>>
    /\ last = NoRequest
    /\ threads = [t \in Threads |-> IdleThread]
    /\ setup = SetupAtStart
    /\ cloud \in [collection : ResourcesBefore, knowledge_base : ResourcesBefore]

\* the statements of main
MainStep ==
    \/ CreateS3Bucket
    \/ CreateBedrockExecutionRole
    \/ CreateCollection
    \/ WaitCollection
    \/ CreateVectorIndex
    \/ CreateKnowledgeBase
    \/ WaitKnowledgeBase
    \/ CreateDataSource
    \/ UpdateEnvFile

NextSetup == MainStep \/ CollectionProgress \/ KnowledgeBaseProgress

SpecSetup == InitSetup /\ [][NextSetup]_vars

\* The script keeps running, and a resource that is being created
\* eventually reports ACTIVE or FAILED
SpecSetupFair ==
    /\ InitSetup
    /\ [][NextSetup]_vars
    /\ WF_vars(MainStep)
    /\ WF_vars(CollectionProgress)
    /\ WF_vars(KnowledgeBaseProgress)

\* ---------------------------------------------------------------- app.py
\* app.py is the application in one file.  Its client getters, its
\* generation and ingestion functions and its handlers other than health
\* are, statement for statement, those of services/*.py and routes/api.py,
\* and the definitions above stand for both.  It has its own
\* retrieve_from_bedrock and counts the documents inside health.

\* lines 112-115 of app.py: HYBRID for "HYBRID", SEMANTIC for anything else
app_search_type(search_type) ==
    IF search_type = JStr(<<"HYBRID">>) THEN JStr(<<"HYBRID">>) ELSE JStr(<<"SEMANTIC">>)

\* retrieve_from_bedrock of app.py (lines 99-146); ext is what the external
\* retrieve call does when it is made
app_retrieve_from_bedrock(cl, query, k, search_type, reranking, metadata_filter, ext) ==
    IF KNOWLEDGE_BASE_ID = None
    THEN [calls |-> <<>>,
          cl |-> cl,
          err |-> "KNOWLEDGE_BASE_ID not configured. Run setup_aws_infrastructure.py first.", ok |-> FALSE, value |-> <<>>]
    ELSE LET cl1 == get_bedrock_agent_runtime(cl)
             call == [arg |-> [filter |-> IF Truthy(metadata_filter) THEN metadata_filter ELSE JAbsent,
                               knowledgeBaseId |-> KNOWLEDGE_BASE_ID,
                               numberOfResults |-> k,
                               overrideSearchType |-> app_search_type(search_type),
                               rerankingConfiguration |-> Truthy(reranking),
                               text |-> query],
                      fn |-> "client.retrieve",
                      ret |-> ext]
         IN  IF ext.ok
             THEN [calls |-> <<call>>, cl |-> cl1, err |-> None,
                   ok |-> TRUE, value |-> ExtractChunks(ext.hits)]
             ELSE [calls |-> <<call>>, cl |-> cl1, err |-> ext.err,
                   ok |-> FALSE, value |-> <<>>]

\* lines 290-296 of app.py: the whole bucket is listed and the KeyCount of
\* the answer is the count; every exception is caught and leaves 0
app_document_count(cl, bkt, ext) ==
    LET cl1 == get_s3_client(cl)
        call == [arg |-> [Bucket |-> S3_BUCKET_NAME, Prefix |-> ""],
                 fn |-> "s3.list_objects_v2",
                 ret |-> ext]
    IN  IF S3_BUCKET_NAME = None
        THEN [calls |-> <<>>, cl |-> cl1, err |-> None, ok |-> TRUE, value |-> 0]
        ELSE [calls |-> <<call>>, cl |-> cl1, err |-> None, ok |-> TRUE,
              value |-> IF ext.ok THEN Cardinality(bkt) ELSE 0]

\* POST /ask of app.py (lines 394-452)
AppAsk ==
    \E body \in AppAskBodies :
    \E p \in {ask_parse(body)} :
        LET cl0 == [h |-> singletons, n |-> constructed]
        IN  /\ UNCHANGED <<config, bucket, jobs>>
            /\ IF p.done THEN Finish("app.ask", body, <<>>, p.resp, cl0)
               ELSE \E rext \in RetrieveOutcomes :
                    \E r \in {app_retrieve_from_bedrock(cl0, p.question, p.k, p.search_type,
                                                        p.reranking, p.metadata_filter, rext)} :
                    \E a \in {ask_retrieved(p, r)} :
                   LET c1 == <<Call("retrieve_from_bedrock",
                                    [k |-> p.k, metadata_filter |-> p.metadata_filter,
                                     query |-> p.question,
                                     reranking |-> p.reranking,
                                     search_type |-> p.search_type], Ret(r))>>
                             \o r.calls
                   IN  IF a.done THEN Finish("app.ask", body, c1, a.resp, r.cl)
                       ELSE \E gext \in GenOutcomes :
                            \E context \in {Join(r.value)} :
                            \E g \in {generate_answer(r.cl, context, p.question, p.temperature,
                                                      p.top_p, p.llm_top_k, p.max_tokens, gext)} :
                           LET c2 == c1 \o <<Call("generate_answer",
                                                  [context |-> context, max_tokens |-> p.max_tokens,
                                                   question |-> p.question,
                                                   temperature |-> p.temperature, top_k |-> p.llm_top_k,
                                                   top_p |-> p.top_p], Ret(g))>>
                                        \o g.calls
                           IN  Finish("app.ask", body, c2, ask_generated(p, r.value, g), g.cl)

\* GET /health of app.py (lines 286-314)
AppHealth ==
    \E dext \in CountOutcomes :
    \E lext \in ListOutcomes :
    \E d \in {app_document_count([h |-> singletons, n |-> constructed], bucket, dext)} :
    \E r \in {get_ingestion_status(d.cl, jobs, lext)} :
        /\ Finish("app.health", None,
                  d.calls \o <<Call("get_ingestion_status", <<>>, Ret(r))>> \o r.calls,
                  health(d.value, r), r.cl)
        /\ UNCHANGED <<config, bucket, jobs>>

\* app.py serving /ask and /health, either before the setup script has run
\* (nothing configured) or after it (the ids and the bucket configured, the
\* bucket holding the folder marker of the script and a document, the
\* knowledge base with or without an ingestion job)
InitMonolith ==
    /\ \/ /\ KNOWLEDGE_BASE_ID = None
          /\ DATA_SOURCE_ID = None
          /\ S3_BUCKET_NAME = None
          /\ bucket = {}
          /\ jobs = <<>>
       \/ /\ KNOWLEDGE_BASE_ID = "kb-1"
          /\ DATA_SOURCE_ID = "ds-1"
          /\ S3_BUCKET_NAME = "bucket-1"
          /\ bucket = StoredBefore
          /\ jobs \in {<<>>, <<NewJob(1)>>}
    /\ GEMINI_API_KEY = None
    /\ USE_BEDROCK_LLM = TRUE
    /\ singletons = [c \in ClientNames |-> NoHandle]
    /\ constructed = [c \in ClientNames |-> 0]
    /\ last = NoRequest
    /\ threads = [t \in Threads |-> IdleThread]
    /\ NotProvisioning

NextMonolith == AppAsk \/ AppHealth

SpecMonolith == InitMonolith /\ [][NextMonolith]_vars

\* ================================================================ properties
\* the positions in the last request's call log of the calls to fns
CallIdx(fns) == {i \in 1..Len(last.calls) : last.calls[i].fn \in fns}

RetrievalFns == {"retrieve_from_bedrock", "client.retrieve"}
GenerationFns == {"generate_answer", "client.invoke_model", "client.models.generate_content"}
ServiceFns == {"retrieve_from_bedrock", "generate_answer"}

\* the question of a body is missing, empty or only whitespace
IsBlankQuestion(body) ==
    \/ body.kind = "invalid"
    \/ /\ body.kind = "object"
       /\ LET q == body.data["question"]
          IN  \/ q.t = "absent"
              \/ q.t = "null"
              \/ q.t = "str" /\ \A i \in 1..Len(q.s) : q.s[i] \in Whitespace

IsErrorBody(body, err) == DOMAIN body = {"error"} /\ body.error = err

\* C1: every /ask request whose question is missing, empty or only
\* whitespace is answered 400 with an error, and makes neither the retrieval
\* nor the generation call.
C1_BlankQuestionIs400 ==
    (last.op = "ask" /\ IsBlankQuestion(last.req)) =>
        /\ last.resp.handled
        /\ last.resp.code = 400
        /\ "error" \in DOMAIN last.resp.body
        /\ CallIdx(RetrievalFns \cup GenerationFns) = {}

\* C2: an /ask request whose retrieval returns zero chunks is answered 404
\* and never invokes the generation backend.
C2_NoChunksIs404 ==
    last.op = "ask" =>
        \A i \in CallIdx({"retrieve_from_bedrock"}) :
            (last.calls[i].ret.ok /\ last.calls[i].ret.value = <<>>) =>
                /\ last.resp.handled
                /\ last.resp.code = 404
                /\ CallIdx(GenerationFns) = {}

C2_Witness ==
    /\ last.op = "ask"
    /\ last.resp.code = 404
    /\ \E i \in CallIdx({"retrieve_from_bedrock"}) :
           last.calls[i].ret.ok /\ last.calls[i].ret.value = <<>>
    /\ \E i \in CallIdx({"client.retrieve"}) : Len(last.calls[i].ret.hits) > 0

\* the length of the first n chunks joined, separators included
RECURSIVE JoinedLen(_, _)
JoinedLen(chunks, n) ==
    IF n = 0 THEN 0 ELSE JoinedLen(chunks, n - 1) + Len(chunks[n]) + (IF n > 1 THEN 1 ELSE 0)

\* ctx is the chunks in order, one newline between neighbours and nothing else
IsNewlineJoin(chunks, ctx) ==
    /\ Len(ctx) = JoinedLen(chunks, Len(chunks))
    /\ \A i \in 1..Len(chunks) :
           /\ SubSeq(ctx, JoinedLen(chunks, i) - Len(chunks[i]) + 1, JoinedLen(chunks, i))
                  = chunks[i]
           /\ i > 1 => ctx[JoinedLen(chunks, i) - Len(chunks[i])] = "\n"

\* C3: when retrieval returns chunks and generation succeeds, the response's
\* context is exactly the retrieved chunk sequence, the context given to
\* generation is the chunks joined by newlines, and retrieval is called
\* before generation.
C3_ContextIsRetrievedChunks ==
    last.op = "ask" =>
        /\ \A j \in CallIdx(GenerationFns) :
               \E i \in CallIdx({"retrieve_from_bedrock"}) : i < j
        /\ \A i \in CallIdx({"retrieve_from_bedrock"}) :
           \A j \in CallIdx({"generate_answer"}) :
               (last.calls[i].ret.ok /\ last.calls[i].ret.value # <<>> /\ last.calls[j].ret.ok) =>
                   /\ last.resp.handled
                   /\ last.resp.code = 200
                   /\ last.resp.body.context = last.calls[i].ret.value
                   /\ IsNewlineJoin(last.calls[i].ret.value, last.calls[j].arg.context)

C3_Witness ==
    /\ last.op = "ask"
    /\ last.resp.code = 200
    /\ Len(last.resp.body.context) = 2
    /\ last.resp.body.context[1] # last.resp.body.context[2]
    /\ \E j \in CallIdx({"generate_answer"}) : last.calls[j].ret.ok

\* C4: when the retrieval call or the generation call raises, the response
\* is 500 with body {error: message}; an empty retrieval result is never
\* answered 500 and an error is never answered 404.
C4_DownstreamErrorIs500 ==
    last.op = "ask" =>
        /\ \A i \in CallIdx(ServiceFns) :
               ~last.calls[i].ret.ok =>
                   /\ last.resp.handled
                   /\ last.resp.code = 500
                   /\ IsErrorBody(last.resp.body, last.calls[i].ret.err)
        /\ \A i \in CallIdx({"retrieve_from_bedrock"}) :
               (last.calls[i].ret.ok /\ last.calls[i].ret.value = <<>>) => last.resp.code # 500
        /\ last.resp.code = 404 =>
               \A i \in CallIdx(ServiceFns) : last.calls[i].ret.ok

C4_Witness ==
    /\ last.op = "ask"
    /\ last.resp.code = 500
    /\ \E i \in CallIdx({"retrieve_from_bedrock"}) : last.calls[i].ret.ok
    /\ \E j \in CallIdx({"generate_answer"}) :
           /\ ~last.calls[j].ret.ok
           /\ last.calls[j].ret.err = "Missing GOOGLE_API_KEY environment variable."

\* ---------------------------------------------------------------- /upload
\* the name ends, in any case of letters, in an extension of the allow-list
HasAllowedExtension(f) ==
    \E e \in ALLOWED_EXTENSIONS :
        /\ Len(f) > Len(e)
        /\ SubSeq(Lower(f), Len(f) - Len(e) + 1, Len(f)) = e

IsUploadCall(c) == c.fn = "upload_to_s3"

\* the names handed to upload_to_s3 during the last request, in call order
StorageArgs ==
    LET cs == SelectSeq(last.calls, IsUploadCall)
    IN  [i \in 1..Len(cs) |-> cs[i].arg]

NoStorageFailure == \A c \in CallIdx({"upload_to_s3"}) : last.calls[c].ret.ok

StartCalls == Cardinality(CallIdx({"start_ingestion_job"}))

StartFns == {"start_ingestion_job", "client.start_ingestion_job"}
SuccessFields == {"uploaded", "ingestion_job_id", "message"}
WarningFields == {"uploaded", "warning"}
ErrorCodes == {400, 500}

\* C5: for a non-empty list of files with allowed extensions whose storage
\* calls all succeed, `uploaded` is exactly the submitted names in
\* submission order and exactly one ingestion-sync call is made.
C5_AllowedFilesAllUploaded ==
    (/\ last.op = "upload"
     /\ last.req.has_files
     /\ \A i \in 1..Len(last.req.files) : HasAllowedExtension(last.req.files[i])
     /\ NoStorageFailure) =>
        /\ last.resp.handled
        /\ "uploaded" \in DOMAIN last.resp.body
        /\ last.resp.body.uploaded = last.req.files
        /\ StartCalls = 1

C5_Witness ==
    /\ last.op = "upload"
    /\ Len(last.req.files) = 2
    /\ last.req.files[1] # last.req.files[2]
    /\ \A i \in 1..2 : HasAllowedExtension(last.req.files[i])
    /\ last.resp.code = 200
    /\ last.resp.body.uploaded = last.req.files
    /\ StartCalls = 1

\* C6: a file with a disallowed extension in a batch is not listed in
\* `uploaded`, is never sent to storage, and the allowed files before and
\* after it are uploaded and listed.
C6_DisallowedFileExcluded ==
    (last.op = "upload" /\ last.req.has_files) =>
        /\ \A i \in 1..Len(last.req.files) :
               ~HasAllowedExtension(last.req.files[i]) =>
                   /\ \A c \in CallIdx({"upload_to_s3"}) :
                          last.calls[c].arg # last.req.files[i]
                   /\ \A c \in CallIdx({"s3.upload_fileobj"}) :
                          last.calls[c].arg.Key # StorageKey(last.req.files[i])
                   /\ "uploaded" \in DOMAIN last.resp.body =>
                          \A k \in 1..Len(last.resp.body.uploaded) :
                              last.resp.body.uploaded[k] # last.req.files[i]
        /\ NoStorageFailure =>
               /\ StorageArgs = SelectSeq(last.req.files, HasAllowedExtension)
               /\ \A k \in 1..Len(StorageArgs) : StorageKey(StorageArgs[k]) \in bucket
               /\ StorageArgs # <<>> =>
                      /\ "uploaded" \in DOMAIN last.resp.body
                      /\ last.resp.body.uploaded = StorageArgs

C6_Witness ==
    /\ last.op = "upload"
    /\ Len(last.req.files) = 2
    /\ last.req.files[1] # <<>>
    /\ ~HasAllowedExtension(last.req.files[1])
    /\ HasAllowedExtension(last.req.files[2])
    /\ last.resp.code = 200
    /\ last.resp.body.uploaded = <<last.req.files[2]>>
    /\ StorageKey(last.req.files[2]) \in bucket

\* C7: when the storage call of a file fails the request ends with a 500
\* error naming that file; no later file is sent to storage, no ingestion
\* job is started, and the objects written for the earlier files stay in
\* storage.
C7_StorageFailureAborts ==
    last.op = "upload" =>
        \A c \in CallIdx({"upload_to_s3"}) :
            ~last.calls[c].ret.ok =>
                /\ last.resp.handled
                /\ last.resp.code = 500
                /\ IsErrorBody(last.resp.body,
                               FailedToUpload(last.calls[c].arg, last.calls[c].ret.err))
                /\ \A d \in CallIdx({"upload_to_s3"}) : d <= c
                /\ \A d \in CallIdx({"s3.upload_fileobj"}) : d <= c + 1
                /\ CallIdx(StartFns) = {}
                /\ \A d \in CallIdx({"upload_to_s3"}) :
                       d < c => /\ last.calls[d].ret.ok
                                /\ StorageKey(last.calls[d].arg) \in bucket

C7_Witness ==
    /\ last.op = "upload"
    /\ last.resp.code = 500
    /\ \E c \in CallIdx({"upload_to_s3"}) :
           /\ ~last.calls[c].ret.ok
           /\ last.calls[c].ret.err = "S3Error"
           /\ \E d \in CallIdx({"upload_to_s3"}) :
                  d < c /\ StorageKey(last.calls[d].arg) \in bucket

\* the request went through the whole file loop
ReachedEndOfLoop == last.op = "upload" /\ last.req.has_files /\ NoStorageFailure

\* C8 (as claimed): every request that reaches the end of the file loop
\* triggers exactly one ingestion-sync job, however many files were accepted.
C8_SyncUnconditional == ReachedEndOfLoop => StartCalls = 1

\* C8 (amended): a request that reaches the end of the file loop triggers
\* exactly one ingestion-sync job if at least one file was accepted; if none
\* was accepted it is answered 400 and triggers none.
C8_SyncIffAccepted ==
    ReachedEndOfLoop =>
        IF SelectSeq(last.req.files, HasAllowedExtension) # <<>>
        THEN StartCalls = 1
        ELSE /\ StartCalls = 0
             /\ CallIdx(StartFns) = {}
             /\ last.resp.code = 400
             /\ IsErrorBody(last.resp.body, NoValidFiles)

C8_Witness ==
    /\ ReachedEndOfLoop
    /\ Len(last.req.files) = 2
    /\ HasAllowedExtension(last.req.files[1])
    /\ ~HasAllowedExtension(last.req.files[2])
    /\ StartCalls = 1
    /\ \E c \in CallIdx({"client.start_ingestion_job"}) : last.calls[c].ret.ok

IsSuccessBody ==
    /\ last.resp.code = 200
    /\ DOMAIN last.resp.body = SuccessFields

IsWarningBody ==
    /\ last.resp.code = 200
    /\ DOMAIN last.resp.body = WarningFields

\* C9 (as claimed): every /upload response is a success body with `uploaded`
\* and `ingestion_job_id`, or an {error} body with status 400 or 500.
C9_ResponseShapes ==
    last.op = "upload" =>
        /\ last.resp.handled
        /\ \/ /\ last.resp.code = 200
              /\ "uploaded" \in DOMAIN last.resp.body
              /\ "ingestion_job_id" \in DOMAIN last.resp.body
           \/ /\ last.resp.code \in ErrorCodes
              /\ DOMAIN last.resp.body = {"error"}

\* C9 (amended): every /upload response is a success body with `uploaded`
\* and `ingestion_job_id`, an {error} body with status 400 or 500, or,
\* exactly when the ingestion-sync call fails after files were stored, a
\* 200 body with `uploaded` and `warning` and no `ingestion_job_id`.
C9_ResponseShapesWithWarning ==
    last.op = "upload" =>
        /\ last.resp.handled
        /\ \/ IsSuccessBody
           \/ IsWarningBody
           \/ /\ last.resp.code \in ErrorCodes
              /\ DOMAIN last.resp.body = {"error"}
        /\ IsWarningBody <=>
               \E c \in CallIdx({"start_ingestion_job"}) : ~last.calls[c].ret.ok
        /\ IsWarningBody =>
               /\ last.resp.body.uploaded # <<>>
               /\ \A k \in 1..Len(last.resp.body.uploaded) :
                      StorageKey(last.resp.body.uploaded[k]) \in bucket

C9_Witness ==
    /\ last.op = "upload"
    /\ IsWarningBody
    /\ Len(last.resp.body.uploaded) = 2
    /\ \E c \in CallIdx({"client.start_ingestion_job"}) : ~last.calls[c].ret.ok

\* ------------------------------------------------- /ingestion-status/<job_id>
\* the answer the next state holds is the job detail of `job`
IsJobDetail(resp, job) ==
    /\ resp.handled
    /\ resp.code = 200
    /\ resp.body.status = job.status
    /\ resp.body.started_at = PyStr(job.startedAt)
    /\ resp.body.updated_at = PyStr(job.updatedAt)
    /\ resp.body.failure_reasons = JobGet(job, "failureReasons", <<>>)

\* vars, with the request record taken apart: the kind of request is compared
\* before what was asked and answered
varsByField ==
    <<config, singletons, constructed, bucket, jobs, threads, provisioning,
      last.op, last.req, last.resp, last.calls>>

IsJobNotFound(resp) ==
    /\ resp.handled
    /\ resp.code = 404
    /\ resp.body.status = "not_found"
    /\ resp.body.error = "Job not found"

\* C10: a status request for a job id the external service does not know is
\* answered 404 {status: "not_found", error: "Job not found"}; one for a job
\* it knows is answered 200 with that job's status, timestamps and failure
\* reasons.  (`jobs` is the external service's list when the request runs.)
C10_StatusOfJob ==
    [][(last'.op = "ingestion_status" /\ jobs' = jobs) =>
           IF last'.req \in 1..Len(jobs)
           THEN IsJobDetail(last'.resp, jobs[last'.req])
           ELSE IsJobNotFound(last'.resp)]_varsByField

\* ------------------------------------------------------------------ /sync
StartedFields == {"ingestion_job_id", "message"}

\* the external start calls of the last request that succeeded
StartedIdx == {c \in CallIdx({"client.start_ingestion_job"}) : last.calls[c].ret.ok}

\* C11: /sync answers {ingestion_job_id} with the id of the job the external
\* start call created when that call succeeds and {error} with 500
\* otherwise; with the knowledge-base id or the data-source id unset the
\* start fails before any external call.
C11_SyncStartsOrFails ==
    last.op = "sync" =>
        /\ last.resp.handled
        /\ IF StartedIdx # {}
           THEN /\ last.resp.code = 200
                /\ DOMAIN last.resp.body = StartedFields
                /\ jobs # <<>>
                /\ last.resp.body.ingestion_job_id = jobs[Len(jobs)].ingestionJobId
           ELSE /\ last.resp.code = 500
                /\ DOMAIN last.resp.body = {"error"}
                /\ \E c \in CallIdx({"start_ingestion_job"}) :
                       /\ ~last.calls[c].ret.ok
                       /\ last.resp.body.error = last.calls[c].ret.err
        /\ (KNOWLEDGE_BASE_ID = None \/ DATA_SOURCE_ID = None) =>
               /\ Len(last.calls) = 1
               /\ last.calls[1].fn = "start_ingestion_job"
               /\ last.resp.code = 500
               /\ constructed["_bedrock_agent"] = 0

C11_Witness ==
    /\ last.op = "sync"
    /\ last.resp.code = 200
    /\ Len(jobs) = 2
    /\ last.resp.body.ingestion_job_id = 2
    /\ StartedIdx # {}

\* ------------------------------------------------------------- /sync/status
LatestFields == {"status", "started_at", "updated_at"}

\* the answer is the status and the times of `job`, as the service holds them
IsLatestJob(resp, job) ==
    /\ resp.handled
    /\ resp.code = 200
    /\ DOMAIN resp.body = LatestFields
    /\ resp.body.status = job.status
    /\ resp.body.started_at = PyStr(job.startedAt)
    /\ resp.body.updated_at = PyStr(job.updatedAt)

IsNoJobsFound(resp) ==
    /\ resp.handled
    /\ resp.code = 200
    /\ DOMAIN resp.body = {"status"}
    /\ resp.body.status = "no_jobs_found"

\* the external listing of the request answered in the next state
ListedNext ==
    {c \in 1..Len(last'.calls) :
        last'.calls[c].fn = "client.list_ingestion_jobs" /\ last'.calls[c].ret.ok}

BackendFns == {"ask_bedrock_llm", "ask_gemini"}
BedrockFns == {"ask_bedrock_llm", "client.invoke_model"}
GeminiFns == {"ask_gemini", "client.models.generate_content"}
AnswerFields == {"answer", "context", "question", "reranking", "search_type", "top_k"}

\* the last request reached generation
ReachedGeneration == last.op = "ask" /\ CallIdx({"generate_answer"}) # {}

\* C13: an /ask request that reaches generation invokes exactly one backend,
\* the one the flag selects, and never the other one, also when it fails;
\* whatever the flag, the response is the 200 answer with the same six
\* fields when the backend succeeded and 500 {error} when it failed.
C13_OneBackendByFlag ==
    ReachedGeneration =>
        /\ Cardinality(CallIdx({"generate_answer"})) = 1
        /\ Cardinality(CallIdx(BackendFns)) = 1
        /\ IF USE_BEDROCK_LLM
           THEN CallIdx({"ask_bedrock_llm"}) # {} /\ CallIdx(GeminiFns) = {}
           ELSE CallIdx({"ask_gemini"}) # {} /\ CallIdx(BedrockFns) = {}
        /\ last.resp.handled
        /\ \A c \in CallIdx(BackendFns) :
               IF last.calls[c].ret.ok
               THEN /\ last.resp.code = 200
                    /\ DOMAIN last.resp.body = AnswerFields
                    /\ last.resp.body.answer = last.calls[c].ret.value
               ELSE /\ last.resp.code = 500
                    /\ IsErrorBody(last.resp.body, last.calls[c].ret.err)

\* the Bedrock backend failed and Gemini, although its key is set, was not tried
C13_Witness ==
    /\ ReachedGeneration
    /\ USE_BEDROCK_LLM
    /\ GEMINI_API_KEY # None
    /\ \E c \in CallIdx({"client.invoke_model"}) : ~last.calls[c].ret.ok
    /\ CallIdx(GeminiFns) = {}
    /\ last.resp.code = 500

\* ------------------------------------------------- errors of external calls
ExternalFns ==
    {"client.retrieve", "client.invoke_model", "client.models.generate_content",
     "s3.upload_fileobj", "s3.list_objects_v2", "client.start_ingestion_job",
     "client.list_ingestion_jobs", "client.get_ingestion_job"}

\* the external calls of the last request that raised
FailedExternal ==
    {c \in CallIdx(ExternalFns) :
        IF last.calls[c].fn = "client.get_ingestion_job"
        THEN last.calls[c].ret = "error"
        ELSE ~last.calls[c].ret.ok}

\* the lookup's exception carries no message in the call log, and /upload
\* puts the file name in front of the storage error
NoPlainMessage == {"client.get_ingestion_job", "s3.upload_fileobj"}

\* C14: on every endpoint an exception raised by an external call is caught
\* by the handler and answered 500 with {error: <message>}; none escapes.
C14_ExternalErrorIs500 ==
    \A c \in FailedExternal :
        /\ last.resp.handled
        /\ last.resp.code = 500
        /\ DOMAIN last.resp.body = {"error"}
        /\ last.calls[c].fn \notin NoPlainMessage =>
               last.resp.body.error = last.calls[c].ret.err

\* ------------------------------------------------------ missing configuration
JobFns == {"start_ingestion_job", "get_ingestion_status", "get_ingestion_job_by_id"}

\* the last request called an operation whose identifier or credential is unset
UsesMissingConfig ==
    \/ CallIdx(JobFns) # {} /\ (KNOWLEDGE_BASE_ID = None \/ DATA_SOURCE_ID = None)
    \/ CallIdx({"retrieve_from_bedrock"}) # {} /\ KNOWLEDGE_BASE_ID = None
    \/ CallIdx({"upload_to_s3"}) # {} /\ S3_BUCKET_NAME = None
    \/ CallIdx({"ask_gemini"}) # {} /\ GEMINI_API_KEY = None

\* C15: a request that uses an operation whose identifier or credential is
\* missing ends in a 500 response or a thrown error, never in a success or
\* a not-found response.
C15_MissingConfigIs500 == UsesMissingConfig => last.resp.code = 500

\* ------------------------------------------------------------- the clients
clients == <<singletons, constructed>>

\* the client an external call is made through
ClientOf ==
    [fn \in ExternalFns |->
        CASE fn = "client.retrieve" -> "_bedrock_agent_runtime"
          [] fn = "client.invoke_model" -> "_bedrock_runtime"
          [] fn = "client.models.generate_content" -> "_gemini_client"
          [] fn = "s3.upload_fileobj" -> "_s3_client"
          [] fn = "s3.list_objects_v2" -> "_s3_client"
          [] OTHER -> "_bedrock_agent"]

\* over one request: the client is constructed at most once in the process,
\* only while its singleton is unset, and a set singleton keeps its handle
ConstructedOnce(name) ==
    /\ constructed'[name] <= 1
    /\ (singletons'[name] = NoHandle) <=> (constructed'[name] = 0)
    /\ singletons[name] # NoHandle =>
           /\ singletons'[name] = singletons[name]
           /\ constructed'[name] = constructed[name]
    /\ constructed'[name] # constructed[name] =>
           /\ singletons[name] = NoHandle
           /\ singletons'[name] # NoHandle

\* C16: with requests handled one at a time each client is constructed at
\* most once, by the first call of its getter, and every later call returns
\* the stored handle without constructing; a client through which a request
\* made an external call is set afterwards.
C16_ClientsConstructedOnce ==
    [][/\ \A name \in ClientNames : ConstructedOnce(name)
       /\ \A c \in 1..Len(last'.calls) :
              last'.calls[c].fn \in ExternalFns =>
                  singletons'[ClientOf[last'.calls[c].fn]] # NoHandle]_clients

\* a request that only retrieved, after an earlier one that also generated
C16_Witness ==
    /\ last.op = "ask"
    /\ last.resp.code = 404
    /\ CallIdx({"client.retrieve"}) # {}
    /\ constructed["_bedrock_runtime"] = 1
    /\ constructed["_bedrock_agent_runtime"] = 1
    /\ singletons["_bedrock_agent_runtime"] # NoHandle

\* ------------------------------------------------- no state between requests
\* a process that has handled no request yet
Fresh == [h |-> [c \in ClientNames |-> NoHandle], n |-> [c \in ClientNames |-> 0]]

\* what the external call fn did in the request answered in the next state;
\* dflt when the request did not make that call
OutcomeNext(fn, dflt) ==
    LET idx == {c \in 1..Len(last'.calls) : last'.calls[c].fn = fn}
    IN  IF idx = {} THEN dflt ELSE last'.calls[CHOOSE c \in idx : TRUE].ret

ListOutcomeNext ==
    IF OutcomeNext("client.list_ingestion_jobs", ListFails).ok THEN "answer" ELSE "error"

\* the step is one of the external service, not a request
IsJobProgress == jobs' # jobs /\ Len(jobs') = Len(jobs)

\* the request answered in the next state made these calls and got this response
MatchesNext(calls, resp) == last'.calls = calls /\ last'.resp = resp

\* A fresh process, one that has handled nothing before, makes the calls and
\* gives the response of the request answered in the next state, with the
\* external services in the state before and with the outcomes this request met
FreshSync ==
    \E j \in {start_ingestion_job(Fresh, jobs,
                                  OutcomeNext("client.start_ingestion_job", StorageFails))} :
        MatchesNext(<<Call("start_ingestion_job", <<>>, Ret(j))>> \o j.calls, sync(j))

FreshIngestionStatus ==
    \E r \in {get_ingestion_job_by_id(Fresh, last'.req, jobs,
                                      OutcomeNext("client.get_ingestion_job", "error"))} :
        MatchesNext(<<Call("get_ingestion_job_by_id", last'.req, Ret(r))>> \o r.calls,
                    ingestion_status(r.value))

FreshSyncStatus ==
    \E r \in {get_ingestion_status(Fresh, jobs, ListOutcomeNext)} :
        MatchesNext(<<Call("get_ingestion_status", <<>>, Ret(r))>> \o r.calls,
                    sync_status(r))

FreshHealth ==
    \E d \in {get_document_count(Fresh, bucket,
                                 OutcomeNext("s3.list_objects_v2", StorageFails))} :
    \E r \in {get_ingestion_status(d.cl, jobs, ListOutcomeNext)} :
        MatchesNext(<<Call("get_document_count", <<>>, Ret(d))>> \o d.calls
                    \o <<Call("get_ingestion_status", <<>>, Ret(r))>> \o r.calls,
                    health(d.value, r))

RetrieveFails == [err |-> "RetrieveError", hits |-> <<>>, ok |-> FALSE]
GenFails == [err |-> "GenerationError", ok |-> FALSE, text |-> NoText]

FreshAsk ==
    \E p \in {ask_parse(last'.req)} :
        IF p.done THEN MatchesNext(<<>>, p.resp)
        ELSE \E r \in {retrieve_from_bedrock(Fresh, p.question, p.k, p.search_type,
                                              p.reranking, p.metadata_filter,
                                              OutcomeNext("client.retrieve", RetrieveFails))} :
             \E a \in {ask_retrieved(p, r)} :
             \E c1 \in {<<Call("retrieve_from_bedrock",
                               [k |-> p.k, metadata_filter |-> p.metadata_filter,
                                query |-> p.question, reranking |-> p.reranking,
                                search_type |-> p.search_type], Ret(r))>> \o r.calls} :
                 IF a.done THEN MatchesNext(c1, a.resp)
                 ELSE \E context \in {Join(r.value)} :
                      \E g \in {generate_answer(r.cl, context, p.question, p.temperature,
                                                p.top_p, p.llm_top_k, p.max_tokens,
                                                OutcomeNext(IF USE_BEDROCK_LLM
                                                            THEN "client.invoke_model"
                                                            ELSE "client.models.generate_content",
                                                            GenFails))} :
                          MatchesNext(c1 \o <<Call("generate_answer",
                                                   [context |-> context,
                                                    max_tokens |-> p.max_tokens,
                                                    question |-> p.question,
                                                    temperature |-> p.temperature,
                                                    top_k |-> p.llm_top_k,
                                                    top_p |-> p.top_p], Ret(g))>> \o g.calls,
                                      ask_generated(p, r.value, g))

\* the position of the file whose storage call failed in the request
\* answered in the next state (0: none failed)
FailAtNext ==
    LET files == last'.req.files
        sent == Cardinality({c \in 1..Len(last'.calls) : last'.calls[c].fn = "upload_to_s3"})
        nth(i) == Cardinality({k \in 1..i : is_allowed(files[k])})
    IN  IF \A c \in 1..Len(last'.calls) :
               last'.calls[c].fn = "s3.upload_fileobj" => last'.calls[c].ret.ok
        THEN 0
        ELSE CHOOSE i \in 1..Len(files) : is_allowed(files[i]) /\ nth(i) = sent

FreshUpload ==
    \E req \in {last'.req} :
        IF ~req.has_files
        THEN MatchesNext(<<>>, Json(400, [error |-> "Send file(s) under 'files' form field."]))
        ELSE \E failAt \in {FailAtNext} :
             \E st \in {upload_loop(req.files, 1, failAt,
                                    [aborted |-> FALSE, bucket |-> bucket, calls |-> <<>>,
                                     cl |-> Fresh, resp |-> Json(0, [none |-> TRUE]),
                                     uploaded |-> <<>>])} :
             \E u \in {upload_checked(st.uploaded)} :
                 IF st.aborted THEN MatchesNext(st.calls, st.resp)
                 ELSE IF u.done THEN MatchesNext(st.calls, u.resp)
                 ELSE \E j \in {start_ingestion_job(
                                    st.cl, jobs,
                                    OutcomeNext("client.start_ingestion_job", StorageFails))} :
                          MatchesNext(st.calls
                                      \o <<Call("start_ingestion_job", <<>>, Ret(j))>>
                                      \o j.calls,
                                      upload_synced(st.uploaded, j))

FreshAnswers ==
    CASE last'.op = "sync" -> FreshSync
      [] last'.op = "ingestion_status" -> FreshIngestionStatus
      [] last'.op = "sync_status" -> FreshSyncStatus
      [] last'.op = "health" -> FreshHealth
      [] last'.op = "ask" -> FreshAsk
      [] last'.op = "upload" -> FreshUpload

RequestOps == {"sync", "ingestion_status", "sync_status", "health", "ask", "upload"}

\* C17: a request changes no process state but the client handles, and its
\* calls and its response are those of a process that has handled nothing
\* before: they depend on the request, the configuration and the external
\* services only.
C17_NoStateBetweenRequests ==
    [][/\ config' = config
       /\ \A name \in ClientNames : singletons[name] # NoHandle => singletons'[name] # NoHandle
       /\ (last'.op \in RequestOps /\ ~IsJobProgress) => FreshAnswers]_varsByField

\* a status request answered from the external state, after a /sync that
\* created that state and constructed the client
C17_Witness ==
    /\ last.op = "sync_status"
    /\ last.resp.code = 200
    /\ last.resp.body.status = "STARTING"
    /\ Len(jobs) = 1
    /\ constructed["_bedrock_agent"] = 1

\* ------------------------------------------------------------------ no retry
\* how many calls of the functions fns the last request made
Calls(fns) == Cardinality(CallIdx(fns))

GenerationExternalFns == {"client.invoke_model", "client.models.generate_content"}
JobQueryFns == {"client.list_ingestion_jobs", "client.get_ingestion_job"}
StatusOps == {"sync_status", "ingestion_status", "health"}
StartOps == {"sync", "upload"}

\* how often the name is among the submitted files, and how often it was
\* sent to storage
Submitted(name) ==
    Cardinality({i \in 1..Len(last.req.files) : last.req.files[i] = name})
Stored(name) ==
    Cardinality({c \in CallIdx({"s3.upload_fileobj"}) :
                    last.calls[c].arg.Key = StorageKey(name)})

\* C18: no external call is made twice for one request: /ask makes at most
\* one retrieval and one generation call, /sync and /upload at most one
\* start-job call, /upload at most one storage call per submitted file, a
\* status endpoint at most one job query, also when the call fails.
C18_NoRetry ==
    /\ last.op = "ask" =>
           /\ Calls({"retrieve_from_bedrock"}) <= 1
           /\ Calls({"client.retrieve"}) <= 1
           /\ Calls({"generate_answer"}) <= 1
           /\ Calls(GenerationExternalFns) <= 1
    /\ last.op \in StartOps =>
           /\ Calls({"start_ingestion_job"}) <= 1
           /\ Calls({"client.start_ingestion_job"}) <= 1
    /\ (last.op = "upload" /\ last.req.has_files) =>
           /\ Calls({"upload_to_s3"}) <= Len(last.req.files)
           /\ \A i \in 1..Len(last.req.files) :
                  Stored(last.req.files[i]) <= Submitted(last.req.files[i])
    /\ last.op \in StatusOps =>
           /\ Calls(JobQueryFns) <= 1
           /\ Calls({"s3.list_objects_v2"}) <= 1
    /\ \A c \in FailedExternal :
           \A d \in CallIdx(ExternalFns) : last.calls[d].fn = last.calls[c].fn => d <= c

\* the generation call failed and was made once
C18_Witness ==
    /\ last.op = "ask"
    /\ last.resp.code = 500
    /\ \E c \in CallIdx({"client.invoke_model"}) : ~last.calls[c].ret.ok
    /\ Calls({"client.invoke_model"}) = 1
    /\ Calls({"client.retrieve"}) = 1

\* ------------------------------------------- /ingestion-status: the sentinel
NoAnswer == {"error", "norecord"}

\* what get_ingestion_job_by_id returned in the request answered in the next state
LookupValueNext == OutcomeNext("get_ingestion_job_by_id", [value |-> NoJob]).value

\* C19: get-by-id returns the null sentinel when the external lookup raises,
\* when the job does not exist, when an identifier is unset and when the
\* external response carries no job record; /ingestion-status then answers
\* 404 not_found, and it never answers 500.  (`jobs` is the service's list
\* when the request runs.)
C19_LookupErrorIsNotFound ==
    [][(last'.op = "ingestion_status" /\ jobs' = jobs) =>
           /\ last'.resp.handled
           /\ last'.resp.code # 500
           /\ (\/ KNOWLEDGE_BASE_ID = None
               \/ DATA_SOURCE_ID = None
               \/ OutcomeNext("client.get_ingestion_job", "answer") \in NoAnswer
               \/ last'.req \notin 1..Len(jobs)) =>
                  /\ LookupValueNext = NoJob
                  /\ IsJobNotFound(last'.resp)]_varsByField

\* the lookup of a job the service holds raised and the answer is 404
C19_Witness ==
    /\ last.op = "ingestion_status"
    /\ last.req \in 1..Len(jobs)
    /\ \E c \in CallIdx({"client.get_ingestion_job"}) : last.calls[c].ret = "error"
    /\ IsJobNotFound(last.resp)

\* ------------------------------------------------------ the check-then-set race
AllIdle == \A t \in Threads : threads[t].pc = "idle"

PastCheck == {"construct", "store"}

\* no thread is between the check that found the global unset and its store
NoneConstructing(name) ==
    \A t \in Threads : ~(threads[t].name = name /\ threads[t].pc \in PastCheck)

\* at every state: no call has returned an unset handle; the global is unset
\* or one of the handles constructed; once every call has returned it is one
\* of them if any was constructed; and a call that started when the global
\* was set and no other thread was inside the getter returned that handle
RaceInvariant ==
    /\ \A t \in Threads : threads[t].ret # NoHandle
    /\ \A name \in RaceNames :
           /\ singletons[name] \in 0..constructed[name]
           /\ (AllIdle /\ constructed[name] >= 1) => singletons[name] \in 1..constructed[name]
    /\ \A t \in Threads :
           (threads[t].pc = "idle" /\ threads[t].atStart # NoHandle) =>
               /\ threads[t].ret = threads[t].atStart
               /\ singletons[threads[t].name] = threads[t].atStart

\* C20: two threads in the same getter can both construct a client, and the
\* race is benign: no call returns an unset handle, after the calls have
\* returned the global holds one of the constructed handles, the stored
\* handle is not replaced once no thread is constructing, and every call
\* that starts afterwards returns it.
C20_RaceIsBenign ==
    /\ []RaceInvariant
    /\ [][\A name \in RaceNames :
              (singletons[name] # NoHandle /\ NoneConstructing(name)) =>
                  singletons'[name] = singletons[name]]_vars

\* both threads constructed an S3 client and returned different handles; the
\* global kept the second, and the next call returned that one
C20_Witness ==
    /\ AllIdle
    /\ constructed["_s3_client"] = 2
    /\ singletons["_s3_client"] = 2
    /\ threads[1].calls = 1 /\ threads[1].name = "_s3_client" /\ threads[1].ret = 1
    /\ threads[2].calls = 2 /\ threads[2].name = "_s3_client" /\ threads[2].ret = 2
    /\ threads[2].atStart = 2

\* ------------------------------------------- the setup script: the .env file
\* the file has a line setting key to value
HasSetting(lines, key, value) ==
    \E i \in 1..Len(lines) : lines[i] = <<key, "=">> \o value \o <<"\n">>

\* C21: when the setup procedure completes, the environment file contains
\* the resulting knowledge-base id, data-source id and bucket name, whatever
\* the file contained at the start (a file without a line for one of these
\* keys included).
C21_EnvFileHoldsIds ==
    setup.pc = "done" =>
        /\ HasSetting(envFile, "KNOWLEDGE_BASE_ID", setup.kb_id)
        /\ HasSetting(envFile, "DATA_SOURCE_ID", setup.ds_id)
        /\ HasSetting(envFile, "S3_BUCKET_NAME", S3_BUCKET_NAME)

\* ------------------------------------------------- /ask: the four outcomes
AskCodes == {200, 400, 404, 500}

\* the response is one of the four JSON outcomes of ask
IsAskOutcome(resp) ==
    /\ resp.handled
    /\ resp.code \in AskCodes
    /\ resp.code = 200 => "answer" \in DOMAIN resp.body
    /\ resp.code # 200 => "error" \in DOMAIN resp.body

\* C22: every /ask request, whatever its JSON body (bodies whose top_k,
\* temperature, top_p, llm_top_k or max_tokens are not numeric included),
\* ends in one of the four handled JSON outcomes 200 with an answer, 400,
\* 404 or 500 with an error: the numeric parameters never make an exception
\* leave the handler.
C22_AskAlwaysHandled == last.op = "ask" => IsAskOutcome(last.resp)

\* ----------------------------------------------------- app.py and routes/api.py
IsExternal(call) == call.fn \in ExternalFns

\* the external calls among calls, in order, with their arguments and results
ExternalCalls(calls) == SelectSeq(calls, IsExternal)

\* the request answered in the next state made these external calls and got
\* this response
SameExternalNext(calls, resp) ==
    /\ ExternalCalls(last'.calls) = ExternalCalls(calls)
    /\ last'.resp = resp

\* The handler of routes/api.py with services/*, given the request app.py
\* answers in the next state and the outcomes that request met, makes the
\* same external calls and gives the same response
ModularAsk ==
    \E p \in {ask_parse(last'.req)} :
        IF p.done THEN SameExternalNext(<<>>, p.resp)
        ELSE \E r \in {retrieve_from_bedrock(Fresh, p.question, p.k, p.search_type,
                                              p.reranking, p.metadata_filter,
                                              OutcomeNext("client.retrieve", RetrieveFails))} :
             \E a \in {ask_retrieved(p, r)} :
                 IF a.done THEN SameExternalNext(r.calls, a.resp)
                 ELSE \E g \in {generate_answer(r.cl, Join(r.value), p.question,
                                                p.temperature, p.top_p, p.llm_top_k,
                                                p.max_tokens,
                                                OutcomeNext(IF USE_BEDROCK_LLM
                                                            THEN "client.invoke_model"
                                                            ELSE "client.models.generate_content",
                                                            GenFails))} :
                          SameExternalNext(r.calls \o g.calls, ask_generated(p, r.value, g))

ModularHealth ==
    \E d \in {get_document_count(Fresh, bucket,
                                 OutcomeNext("s3.list_objects_v2", StorageFails))} :
    \E r \in {get_ingestion_status(d.cl, jobs, ListOutcomeNext)} :
        SameExternalNext(d.calls \o r.calls, health(d.value, r))

\* C23: routes/api.py with services/* and app.py are equivalent: for every
\* request and every behaviour of the external services they make the same
\* external calls with the same arguments and return the same response; in
\* particular the search type sent to the knowledge base is the same, and
\* /health reports the same document_count.
C23_MonolithEquivalent ==
    [][/\ last'.op = "app.ask" => ModularAsk
       /\ last'.op = "app.health" => ModularHealth]_varsByField

\* ------------------------------------------------------- /ask: the search hits
\* the positions of the hits that carry a non-empty text
WithText(hits) == {i \in 1..Len(hits) : hits[i] # NoText /\ hits[i] # <<>>}

\* chunks are the texts of the hits that carry one, each hit once, in the
\* order of the hits
IsTextsOf(chunks, hits) ==
    /\ Len(chunks) = Cardinality(WithText(hits))
    /\ \A i \in WithText(hits) :
           chunks[Cardinality({j \in WithText(hits) : j <= i})] = hits[i]

\* C24: retrieval returns the texts of the search hits in the order the
\* external service returned them, leaving out every hit whose text is
\* missing or empty and nothing else (no hit is dropped as a duplicate, cut
\* off or moved); so an /ask request whose hits all lack a text is answered
\* 404 like one without hits, and generation is not called.
C24_ChunksAreHitTexts ==
    last.op = "ask" =>
        \A c \in CallIdx({"client.retrieve"}) :
            last.calls[c].ret.ok =>
                /\ \A i \in CallIdx({"retrieve_from_bedrock"}) :
                       /\ last.calls[i].ret.ok
                       /\ IsTextsOf(last.calls[i].ret.value, last.calls[c].ret.hits)
                /\ WithText(last.calls[c].ret.hits) = {} =>
                       /\ last.resp.handled
                       /\ last.resp.code = 404
                       /\ CallIdx(GenerationFns) = {}
                /\ (WithText(last.calls[c].ret.hits) # {} /\ last.resp.code = 200) =>
                       IsTextsOf(last.resp.body.context, last.calls[c].ret.hits)

\* a hit without text before a hit with one: the context is the second alone
C24_Witness ==
    /\ last.op = "ask"
    /\ last.resp.code = 200
    /\ \E c \in CallIdx({"client.retrieve"}) :
           /\ Len(last.calls[c].ret.hits) = 2
           /\ WithText(last.calls[c].ret.hits) = {2}
           /\ last.resp.body.context = <<last.calls[c].ret.hits[2]>>

\* ------------------------------------------------- /ask: the missing Gemini key
MissingKeyError == "Missing GOOGLE_API_KEY environment variable."

\* the request in the next state reached generation with Gemini selected
GeminiAskNext ==
    /\ last'.op = "ask"
    /\ ~USE_BEDROCK_LLM
    /\ \E c \in 1..Len(last'.calls) : last'.calls[c].fn = "generate_answer"

\* the client handles other than Gemini's and the retrieval client's
OtherClients == ClientNames \ {"_gemini_client", "_bedrock_agent_runtime"}

\* with the key absent no Gemini client exists, and a request that reaches
\* generation with Gemini selected made the retrieval call first, makes no
\* generation call and is answered 500 with the configuration error
MissingKeyInvariant ==
    GEMINI_API_KEY = None =>
        /\ singletons["_gemini_client"] = NoHandle
        /\ constructed["_gemini_client"] = 0
        /\ (ReachedGeneration /\ ~USE_BEDROCK_LLM) =>
               /\ \A g \in CallIdx({"ask_gemini"}) :
                      /\ ~last.calls[g].ret.ok
                      /\ last.calls[g].ret.err = MissingKeyError
                      /\ \E c \in CallIdx({"client.retrieve"}) :
                             c < g /\ last.calls[c].ret.ok
               /\ CallIdx({"client.models.generate_content"}) = {}
               /\ last.resp = Json(500, [error |-> MissingKeyError])

\* C25: when the Gemini API key is absent, get_gemini_client raises a
\* configuration error without constructing a client and leaves the
\* singleton unset, so every later call fails the same way; an /ask request
\* that reaches generation with Gemini selected is answered 500 after the
\* retrieval call has been made, and no other client handle is affected.
C25_MissingGeminiKey ==
    /\ []MissingKeyInvariant
    /\ [][(GEMINI_API_KEY = None /\ GeminiAskNext) =>
              /\ singletons'["_bedrock_agent_runtime"] # NoHandle
              /\ \A name \in OtherClients :
                     /\ singletons'[name] = singletons[name]
                     /\ constructed'[name] = constructed[name]]_varsByField

\* such a request, handled by a process whose retrieval client exists
C25_Witness ==
    /\ GEMINI_API_KEY = None
    /\ ~USE_BEDROCK_LLM
    /\ ReachedGeneration
    /\ last.resp.code = 500
    /\ last.resp.body.error = MissingKeyError
    /\ constructed["_bedrock_agent_runtime"] = 1
    /\ constructed["_gemini_client"] = 0

\* ------------------------------------------------- /upload: which files are stored
\* the file has a name and the name ends, in any case of letters, in an
\* extension of the allow-list
Qualifies(f) == f # <<>> /\ HasAllowedExtension(f)

\* the submitted files that qualify, in submission order
Qualifying == SelectSeq(last.req.files, Qualifies)

UploadFns == {"upload_to_s3", "s3.upload_fileobj"} \cup StartFns

\* every storage call of the last request has the key documents/<name> with
\* the name as submitted, and `uploaded` lists the names as submitted
OriginalNamesKept ==
    /\ \A c \in CallIdx({"s3.upload_fileobj"}) :
           /\ c > 1
           /\ last.calls[c - 1].fn = "upload_to_s3"
           /\ last.calls[c].arg.Key = <<"documents/">> \o last.calls[c - 1].arg
    /\ "uploaded" \in DOMAIN last.resp.body =>
           /\ last.resp.body.uploaded = StorageArgs
           /\ \A k \in 1..Len(StorageArgs) :
                  <<"documents/">> \o StorageArgs[k] \in bucket

\* a request without the files field, or without a qualifying file, is
\* answered 400 and makes no storage and no ingestion call
NothingToStoreIs400 ==
    (~last.req.has_files \/ Qualifying = <<>>) =>
        /\ last.resp.handled
        /\ last.resp.code = 400
        /\ CallIdx(UploadFns) = {}

\* C26: in /upload a file is sent to storage iff its filename is non-empty
\* and its lower-cased extension is in the allow-list; the storage key is
\* documents/<filename> with the filename as submitted, the same filename
\* appears in `uploaded`, and a request in which no file qualifies, or
\* without the files field, is answered 400 without a storage or ingestion
\* call.
C26_StoredIffQualifies ==
    last.op = "upload" =>
        /\ StorageArgs = Qualifying
        /\ OriginalNamesKept
        /\ NothingToStoreIs400

\* C26, with the abort: a file is sent to storage iff it qualifies and the
\* storage call of no earlier file of the request failed; the first failure
\* ends the request, so the files sent are the qualifying ones up to the
\* first failure, and all of them when no storage call fails.  Keys, the
\* names in `uploaded` and the 400 answer as above.
C26_StoredIffQualifiesUntilFailure ==
    last.op = "upload" =>
        /\ Len(StorageArgs) <= Len(Qualifying)
        /\ StorageArgs = SubSeq(Qualifying, 1, Len(StorageArgs))
        /\ \A c \in CallIdx({"upload_to_s3"}) :
               ~last.calls[c].ret.ok => \A d \in CallIdx({"upload_to_s3"}) : d <= c
        /\ NoStorageFailure => StorageArgs = Qualifying
        /\ OriginalNamesKept
        /\ NothingToStoreIs400

\* a file named in upper case after one that does not qualify: it is stored
\* and listed under the name as submitted
C26_Witness ==
    /\ last.op = "upload"
    /\ Len(last.req.files) = 2
    /\ ~Qualifies(last.req.files[1])
    /\ Qualifies(last.req.files[2])
    /\ Lower(last.req.files[2]) # last.req.files[2]
    /\ last.resp.code = 200
    /\ last.resp.body.uploaded = <<last.req.files[2]>>
    /\ <<"documents/">> \o last.req.files[2] \in bucket
    /\ <<"documents/">> \o Lower(last.req.files[2]) \notin bucket

\* ------------------------------------------- the setup script: loops and order
WaitLoops == {"wait_collection", "wait_knowledge_base"}

\* the status of the resource the loop at pc polls
Awaited(pc) == IF pc = "wait_collection" THEN cloud.collection ELSE cloud.knowledge_base

\* the statement of main after the step the loop at pc belongs to
AfterLoop(pc) ==
    IF pc = "wait_collection" THEN "create_vector_index" ELSE "create_data_source"

\* the step leaves a wait loop
LeavesLoop == setup.pc \in WaitLoops /\ setup'.pc # setup.pc

\* the loop is left on ACTIVE, and the step returns
LeftOnActive ==
    /\ Awaited(setup.pc) = "ACTIVE"
    /\ setup'.polled = "ACTIVE"
    /\ setup'.pc = AfterLoop(setup.pc)
    /\ setup'.steps[Len(setup'.steps)][2] = "return"

\* the loop is left on FAILED, with an exception that ends main
LeftOnFailed ==
    /\ Awaited(setup.pc) = "FAILED"
    /\ setup'.polled = "FAILED"
    /\ setup'.pc = "exit(1)"
    /\ setup'.steps[Len(setup'.steps)][2] = "raise"

\* the loop is left because the status call itself raised
LeftOnPollError ==
    /\ setup'.polled = "error"
    /\ setup'.pc = "exit(1)"
    /\ setup'.steps[Len(setup'.steps)][2] = "raise"

\* every wait loop the script enters is left again
LoopsTerminate == \A w \in WaitLoops : (setup.pc = w) ~> (setup.pc # w)

\* the steps taken so far are the steps of main in its order, each called
\* after the one before it returned; only the last one may have raised, and
\* then main has ended
StepsInOrder ==
    /\ Len(setup.steps) <= 2 * Len(SetupSteps)
    /\ \A i \in 1..Len(setup.steps) :
           /\ setup.steps[i][1] = SetupSteps[(i + 1) \div 2]
           /\ i % 2 = 1 => setup.steps[i][2] = "call"
           /\ i % 2 = 0 => \/ setup.steps[i][2] = "return"
                           \/ /\ setup.steps[i][2] = "raise"
                              /\ i = Len(setup.steps)
                              /\ setup.pc = "exit(1)"
    /\ setup.pc = "done" => Len(setup.steps) = 2 * Len(SetupSteps)

\* C27: each wait loop of the setup procedure is left only when the polled
\* status is ACTIVE (the step returns) or FAILED (it raises); if the
\* resource eventually reports ACTIVE or FAILED the loop terminates,
\* otherwise it polls forever; and the steps bucket, role, collection,
\* index, knowledge base, data source, env-file update run strictly in that
\* order, none starting before the one before it returned.
C27_WaitLoopsAndOrder ==
    /\ [][LeavesLoop => (LeftOnActive \/ LeftOnFailed)]_vars
    /\ LoopsTerminate
    /\ []StepsInOrder

\* C27, with the status call that raises: a wait loop is left only when the
\* polled status is ACTIVE (the step returns) or FAILED (it raises), or when
\* the status call itself raises, which ends the script like FAILED; a poll
\* that reads any other status stays in the loop, without a limit.  If the
\* resource eventually reports ACTIVE or FAILED the loop terminates; the
\* steps run strictly in order.
C27_WaitLoopsWithPollError ==
    /\ [][/\ LeavesLoop => (LeftOnActive \/ LeftOnFailed \/ LeftOnPollError)
          /\ (setup.pc \in WaitLoops /\ setup' # setup
              /\ setup'.polled \notin {"ACTIVE", "FAILED", "error"}) =>
                 /\ setup'.pc = setup.pc
                 /\ setup'.steps = setup.steps]_vars
    /\ LoopsTerminate
    /\ []StepsInOrder

\* the script is in its second wait loop, has polled a status that keeps it
\* there, and the first loop has returned
C27_Witness ==
    /\ setup.pc = "wait_knowledge_base"
    /\ setup.polled = "CREATING"
    /\ cloud.collection = "ACTIVE"
    /\ Len(setup.steps) = 9
    /\ setup.steps[6] = <<"create_opensearch_serverless_collection", "return">>

\* ----------------------------------------------------------- GET /health
\* the step handles a GET /health request
IsHealthNext == last'.op = "health" /\ jobs' = jobs /\ bucket' = bucket

\* the keys a listing of the prefix documents/ holds that are documents: the
\* prefix followed by a name whose last character is not "/"
DocumentsListed ==
    {k \in bucket : k[1] = "documents/" /\ Len(k) > 1 /\ k[Len(k)] # "/"}

\* the calls of the request to fn
CallsNext(fn) == {i \in 1..Len(last'.calls) : last'.calls[i].fn = fn}

\* the storage listing was made and answered
ListingAnsweredNext ==
    \E i \in CallsNext("s3.list_objects_v2") : last'.calls[i].ret.ok


\* the latest-job query returned a job
JobReturnedNext ==
    \E i \in CallsNext("get_ingestion_status") :
        last'.calls[i].ret.ok /\ last'.calls[i].ret.value # NoJob

\* the latest-job query raised
JobQueryRaisedNext ==
    \E i \in CallsNext("get_ingestion_status") : ~last'.calls[i].ret.ok

DocumentCountNext ==
    IF ListingAnsweredNext THEN Cardinality(DocumentsListed) ELSE 0

\* C28: GET /health reports as document_count the number of listed objects
\* under documents/ whose key does not end in "/", 0 when the listing
\* fails for any reason, and has last_ingestion iff the latest-job query
\* returns a job; what the storage listing did changes neither the field
\* status: healthy nor the status code, which follow from the latest-job
\* query alone.
C28_HealthCounts ==
    [][IsHealthNext =>
        /\ \A i \in CallsNext("get_document_count") :
               /\ last'.calls[i].ret.ok
               /\ last'.calls[i].ret.value = DocumentCountNext
        /\ JobReturnedNext <=> /\ KNOWLEDGE_BASE_ID # None
                               /\ DATA_SOURCE_ID # None
                               /\ jobs # <<>>
                               /\ ~JobQueryRaisedNext
        /\ last'.resp.handled <=> ~JobQueryRaisedNext
        /\ last'.resp.handled =>
               /\ last'.resp.code = 200
               /\ last'.resp.body.status = "healthy"
               /\ last'.resp.body.document_count = DocumentCountNext
               /\ "last_ingestion" \in DOMAIN last'.resp.body <=> JobReturnedNext
        /\ ~last'.resp.handled => "last_ingestion" \notin DOMAIN last'.resp.body
      ]_varsByField

\* a /health answer that counts one document in a bucket holding the folder
\* marker too, and reports the latest job
C28_Witness ==
    /\ last.op = "health"
    /\ last.resp.handled
    /\ last.resp.code = 200
    /\ FolderMarker \in bucket
    /\ Cardinality(bucket) = 2
    /\ last.resp.body.document_count = 1
    /\ "last_ingestion" \in DOMAIN last.resp.body

\* a /health answer after a storage listing that raised: no documents are
\* reported although the bucket holds one
C28_ListingFailed ==
    /\ last.op = "health"
    /\ last.resp.handled
    /\ bucket = StoredBefore
    /\ \E i \in 1..Len(last.calls) :
           last.calls[i].fn = "s3.list_objects_v2" /\ ~last.calls[i].ret.ok
    /\ last.resp.body.document_count = 0
    /\ last.resp.body.status = "healthy"

====
